---- MODULE Spec2Model ----
(***************************************************************************)
(* Reply bot: discovery -> generation -> operator approval -> publish.     *)
(* The model follows the Telegram command handlers (services/telegram.ts), *)
(* the pipelines of index.ts, the publisher (services/twitter.ts) and the  *)
(* schema (db.ts).  Every `await` of the source is a point where another   *)
(* handler may run; the code between two awaits is one action.             *)
(*                                                                         *)
(* Columns and module variables that are written but never read by the     *)
(* pipeline (hits, last_searched_at, lastPollTime, lastSearchTime, tweet   *)
(* text and url, follower counts) are left out.                            *)
(***************************************************************************)
EXTENDS Integers, Sequences, FiniteSets, TLC

(* ------------------------------ bounds -------------------------------- *)
MaxTweet == 2       \* source posts the content source holds: 1..MaxTweet
MaxCmds == 2        \* operator commands handled in one behaviour
MaxRuns == 1        \* discovery runs started in one behaviour
MaxHandlers == 2    \* command handlers that can be in flight at once
MaxPolls == 1       \* pollAccounts runs that can be in flight at once
MaxIds == 2         \* ids listed in one approve / reject command
MaxClock == 2       \* values CURRENT_TIMESTAMP takes
MaxDiscCmds == 1    \* operator commands in a behaviour of SpecDiscovery
MaxDiscRuns == 2    \* discovery runs in a behaviour of SpecDiscovery
MaxCapLen == 22     \* candidates the earlier sources of a cycle of SpecCap have supplied

NULL == "NULL"
NoTime == 0

TweetIds == 1..MaxTweet
Handlers == 1..MaxHandlers
GenTexts == {"g1", "g2"}          \* texts the generator can return
EditTexts == {"e1"}               \* texts the operator can type
Queries == {"q1"}                 \* search_queries.query
Communities == {"c1"}             \* tracked_communities.name
Accounts == {"alice"}             \* tracked_accounts.username

\* two posts only searches return: the text "ok", and a post of the bot's own account
OkTweet == MaxTweet + 1
OwnTweet == MaxTweet + 2
SearchTweetIds == TweetIds \cup {OkTweet, OwnTweet}

\* a post the tracked account publishes while the bot is running, and the posts
\* account timelines can hold
LateTweet == MaxTweet + 3
TimelineIds == TweetIds \cup {LateTweet}

\* author of a source post, as reported by the content source
AuthorOf(t) == IF t = OwnTweet THEN "KyushiThe" ELSE IF t % 2 = 1 THEN "alice" ELSE "bob"

VARIABLES
  rows,          \* pending_replies, indexed by the AUTOINCREMENT id
  replied,       \* replied_authors, indexed by the AUTOINCREMENT id
  sq,            \* search_queries.replies_sent, by query
  tc,            \* tracked_communities.replies_sent, by name
  last_tweet_id, \* tracked_accounts.last_tweet_id, by username (0 is NULL)
  poll,          \* pollAccounts runs
  srch,          \* the pollSearches run
  h,             \* in-flight command handlers
  pubcount,      \* replies the publisher accepted, by source post
  called,        \* postReply calls made by the last step
  sent,          \* operator messages sent by the last step
  recv,          \* the operator message or timer event the last step received
  resp,          \* what the external calls awaited by the last step settled with
  corpus,        \* the posts the content source holds
  old,           \* the posts created more than an hour ago
  fb,            \* the checkFeedback run
  cron,          \* the two scheduled tasks and the flags kept with them
  flt,           \* a candidate post and the quality filter's results on it
  follow_backs,  \* search_queries.follow_backs, by query
  sched,         \* scheduled_posts.status, tweets postTweet created per row, runs of the minute task
  bip,           \* the build-in-public conversation and its tables
  drafts,        \* the content bot's drafts and handlers
  now,           \* CURRENT_TIMESTAMP, in hours since the start of day 0
  cmdsLeft,      \* operator commands still to arrive
  runsLeft       \* discovery runs still to start

vars == <<rows, replied, sq, tc, last_tweet_id, poll, srch, h, pubcount, called,
          sent, recv, resp, corpus, old, fb, cron, flt, follow_backs, sched,
          bip,
          drafts,
          now, cmdsLeft,
          runsLeft>>

\* what neither the approval commands nor the discovery pipelines touch
restVars == <<corpus, old, fb, cron, flt, follow_backs, sched, bip, drafts>>

\* what the approval commands never touch
discVars == <<last_tweet_id, poll, srch, runsLeft, restVars>>
\* what discovery never touches
apprVars == <<replied, sq, tc, h, pubcount, now, cmdsLeft, restVars>>

Msg(kind, id) == [kind |-> kind, id |-> id]

\* an operator message as parsed by its handler
Cmd(kind, ids, text) == [kind |-> kind, ids |-> ids, text |-> text]
NoCmd == Cmd("none", <<>>, NULL)

\* the outcome of an external call, as the awaiting code sees it
Resp(svc, res, page, stale) == [svc |-> svc, res |-> res, page |-> page, stale |-> stale]
NoResp == Resp("none", NULL, {}, {})

\* no checkFeedback run in flight
FbIdle == [pc |-> "idle", by |-> 0, authors |-> <<>>, i |-> 0, followers |-> {},
           newFollowBacks |-> 0, newReplyBacks |-> 0, lastFeedbackTime |-> NoTime]

\* both tasks scheduled at startup, pollingEnabled = true, searchEnabled = true;
\* cb is where the callback of the search task stands
CronInit == [pollTask |-> TRUE, pollingEnabled |-> TRUE,
             searchTask |-> TRUE, searchEnabled |-> TRUE, cb |-> "idle"]

\* no candidate under evaluation
NoFlt == [tw |-> [isReply |-> FALSE, len |-> 0, lenNoUrls |-> 0, hashtags |-> 0, spam |-> FALSE],
          createdAt |-> 0, evals |-> <<>>]

\* scheduled_posts rows, all due, and no run of the every-minute task in flight
MaxSchedPosts == 2  \* rows of scheduled_posts
MaxSchedRuns == 2   \* runs of the every-minute task that can be in flight at once
MaxSchedTicks == 3  \* minutes that elapse in a behaviour of SpecSched
SchedIdle == [pc |-> "idle", duePosts |-> <<>>, i |-> 0]
SchedInit == [status |-> [p \in 1..MaxSchedPosts |-> "scheduled"],
              published |-> [p \in 1..MaxSchedPosts |-> 0],
              run |-> [r \in 1..MaxSchedRuns |-> SchedIdle]]

\* the build-in-public conversation: `state` (phase, step, postId), bip_config.day_number,
\* bip_posts.status by row id, the handleCollectedAnswers / handleApproval calls in
\* flight, and what has happened so far: fourth answers received, generateBipPost
\* calls made, tweets created
MaxBipCalls == 2  \* handleCollectedAnswers / handleApproval calls in flight at once
MaxBipMsgs == 7   \* messages the operator sends in a behaviour of SpecBip
StartDay == 1     \* bip_config.day_number at the start
BipCallIdle == [pc |-> "idle", dayNumber |-> 0, postId |-> 0]
BipInit == [phase |-> "idle", step |-> 0, postId |-> 0, day_number |-> StartDay,
            status |-> <<>>, call |-> [c \in 1..MaxBipCalls |-> BipCallIdle],
            completed |-> 0, generated |-> 0, tweets |-> 0]

\* the content bot: content_drafts (status and content by id, all saved as pending),
\* the approve / edit handlers in flight, and per draft the postTweet calls made
\* and the tweet ids they returned
MaxDrafts == 2      \* rows of content_drafts
MaxDraftCalls == 2  \* approve / edit handlers in flight at once
MaxDraftCmds == 4   \* messages the operator sends in a behaviour of SpecDrafts
DraftCallIdle == [pc |-> "idle", id |-> 0, text |-> NULL, tweetId |-> FALSE]
DraftsInit == [status |-> [d \in 1..MaxDrafts |-> "pending"],
               content |-> [d \in 1..MaxDrafts |-> "draft"],
               call |-> [c \in 1..MaxDraftCalls |-> DraftCallIdle],
               posts |-> [d \in 1..MaxDrafts |-> 0],
               tweetIds |-> [d \in 1..MaxDrafts |-> 0]]

\* the message received, the messages sent and the publish calls made by one step
Step(cmd, msgs, cs) == recv' = cmd /\ resp' = NoResp /\ sent' = msgs /\ called' = cs

\* a step that continues when the publisher or the search source has answered
Settle(r, msgs, cs) == recv' = NoCmd /\ resp' = r /\ sent' = msgs /\ called' = cs

\* a step that continues after an await: nothing is received
Emit(msgs, cs) == Step(NoCmd, msgs, cs)

(* ------------------------------ schema -------------------------------- *)
NoSnap == [id |-> 0, tweet_id |-> 0, tweet_author |-> NULL,
           generated_reply |-> NULL, status |-> NULL,
           source_query |-> NULL, source_type |-> NULL]

Snap(r, id) == [id |-> id, tweet_id |-> r[id].tweet_id,
                tweet_author |-> r[id].tweet_author,
                generated_reply |-> r[id].generated_reply,
                status |-> r[id].status,
                source_query |-> r[id].source_query,
                source_type |-> r[id].source_type]

\* SELECT ... FROM pending_replies WHERE id = ?    (the status filter left out)
SelectPending_NoStatus(r, id) ==
  IF id \in 1..Len(r) THEN Snap(r, id) ELSE NoSnap

\* SELECT ... FROM pending_replies WHERE id = ? AND status = 'pending'
SelectPending(r, id) ==
  IF id \in 1..Len(r) /\ r[id].status = "pending" THEN Snap(r, id) ELSE NoSnap

\* SELECT id FROM pending_replies WHERE status = 'pending'
AllPending(r) == {id \in 1..Len(r) : r[id].status = "pending"}

Idle == [pc |-> "idle", kind |-> "none", ids |-> <<>>, i |-> 0,
         snap |-> NoSnap, text |-> NULL, user |-> NULL,
         posted |-> 0, rejected |-> 0, failed |-> 0]

\* a new command runs in the first free handler
FreeSlot(k) == h[k].pc = "idle" /\ \A j \in 1..(k - 1) : h[j].pc # "idle"

(* ----------------------------- publisher ------------------------------ *)
\* what the POST to the publisher can come back with
PublishOutcomes == {"ok", "auth", "rate", "error", "noid"}

\* the catch block with the 429 branch missing: a rate limit gets the generic alert
postReplyAlerts_NoRateBranch(res) ==
  IF res = "auth" THEN <<Msg("alert_auth", 0)>>
  ELSE IF res \in {"rate", "error"} THEN <<Msg("alert_other", 0)>>
  ELSE <<>>

\* postReply's catch block: the alert it sends before returning null
postReplyAlerts(res) ==
  IF res = "auth" THEN <<Msg("alert_auth", 0)>>
  ELSE IF res = "rate" THEN <<Msg("alert_rate", 0)>>
  ELSE IF res = "error" THEN <<Msg("alert_other", 0)>>
  ELSE <<>>

\* the call itself: the request leaves before the first await
postReplyCall(by, p, text) ==
  [by |-> by, id |-> p.id, tweet |-> p.tweet_id, text |-> text, found |-> p.status]

RECURSIVE Sum(_, _)
Sum(f, S) == IF S = {} THEN 0
             ELSE LET x == CHOOSE y \in S : TRUE IN f[x] + Sum(f, S \ {x})

\* the id the publisher gives the new reply: fresh every time
NewReplyId == 1000 + Sum(pubcount, TweetIds) + 1

(* --------------------------- approval writes -------------------------- *)
\* UPDATE pending_replies SET status = 'rejected' WHERE id = ?    (no resolved time)
RejectRow_NoStamp(r, id) ==
  [r EXCEPT ![id].status = "rejected"]

\* UPDATE pending_replies SET status = 'rejected', resolved_at = CURRENT_TIMESTAMP WHERE id = ?
RejectRow(r, id) ==
  [r EXCEPT ![id].status = "rejected", ![id].resolved_at = now]

\* UPDATE pending_replies SET status = ?, final_reply = generated_reply, resolved_at = ... WHERE id = ?
ResolveRow_GeneratedText(r, id, st, text) ==
  [r EXCEPT ![id].status = st, ![id].final_reply = r[id].generated_reply, ![id].resolved_at = now]

\* UPDATE pending_replies SET status = ?, final_reply = ?, resolved_at = CURRENT_TIMESTAMP WHERE id = ?
ResolveRow(r, id, st, text) ==
  [r EXCEPT ![id].status = st, ![id].final_reply = text, ![id].resolved_at = now]

\* a plain INSERT into a table without the UNIQUE(username, tweet_id) constraint
logRepliedAuthor_NoUnique(ra, p, rid) ==
  Append(ra, [username |-> p.tweet_author, tweet_id |-> p.tweet_id,
              reply_id |-> p.id, source_query |-> p.source_query,
              reply_tweet_id |-> rid, followed_back |-> FALSE,
              got_reply_back |-> FALSE, checked_follow_back_at |-> NoTime,
              created_at |-> now])

\* INSERT OR IGNORE INTO replied_authors ...  with UNIQUE(username, tweet_id)
logRepliedAuthor(ra, p, rid) ==
  IF \E j \in 1..Len(ra) : ra[j].username = p.tweet_author /\ ra[j].tweet_id = p.tweet_id
  THEN ra
  ELSE Append(ra, [username |-> p.tweet_author, tweet_id |-> p.tweet_id,
                   reply_id |-> p.id, source_query |-> p.source_query,
                   reply_tweet_id |-> rid, followed_back |-> FALSE,
                   got_reply_back |-> FALSE, checked_follow_back_at |-> NoTime,
                   created_at |-> now])

\* UPDATE search_queries SET replies_sent = replies_sent + 1 WHERE query = ?
IncSearchReplies(c, p) ==
  IF p.source_type = "search" /\ p.source_query # NULL
  THEN [q \in DOMAIN c |-> IF q = p.source_query THEN c[q] + 1 ELSE c[q]]
  ELSE c

\* UPDATE tracked_communities SET replies_sent = replies_sent + 1 WHERE name = ?
IncCommunityReplies(c, p) ==
  IF ~(p.source_type = "search" /\ p.source_query # NULL)
     /\ p.source_type = "community" /\ p.source_query # NULL
  THEN [q \in DOMAIN c |-> IF q = p.source_query THEN c[q] + 1 ELSE c[q]]
  ELSE c

\* postReply returned null, the row is written as if it had been published
PublishFailed_Resolves(pending, st, text) ==
  /\ rows' = [rows EXCEPT ![pending.id].status = st, ![pending.id].final_reply = text,
                          ![pending.id].resolved_at = now]
  /\ UNCHANGED <<pubcount, replied, sq, tc>>

\* postReply returned null: the else branch writes nothing
PublishFailed(pending, st, text) ==
  UNCHANGED <<pubcount, rows, replied, sq, tc>>

\* the writes after postReply returned a reply id
PublishSucceeded(pending, st, text) ==
  /\ pubcount' = [pubcount EXCEPT ![pending.tweet_id] = @ + 1]
  /\ rows' = ResolveRow(rows, pending.id, st, text)
  /\ replied' = logRepliedAuthor(replied, pending, NewReplyId)
  /\ sq' = IncSearchReplies(sq, pending)
  /\ tc' = IncCommunityReplies(tc, pending)

(* ------------------------- "2 all": reject all ------------------------ *)
RECURSIVE RejectEach(_, _)
RejectEach(r, ids) ==
  IF ids = {} THEN r
  ELSE LET id == CHOOSE x \in ids : TRUE
       IN RejectEach(RejectRow(r, id), ids \ {id})

RejectAll ==
  /\ cmdsLeft > 0
  /\ cmdsLeft' = cmdsLeft - 1
  /\ LET allPending == AllPending(rows) IN
     IF allPending = {}
     THEN /\ Step(Cmd("reject_all", <<>>, NULL), <<Msg("none_pending", 0)>>, <<>>)
          /\ rows' = rows
     ELSE /\ rows' = RejectEach(rows, allPending)
          /\ Step(Cmd("reject_all", <<>>, NULL),
                  <<Msg("rejected_all", Cardinality(allPending))>>, <<>>)
  /\ UNCHANGED <<replied, sq, tc, h, pubcount, now, discVars>>

(* -------------------- "1 #id ..." : approve by ids -------------------- *)
\* one pass of the for-loop, up to its next await
ApproveIter(k, hr, cmd) ==
  IF hr.i > Len(hr.ids)
  THEN /\ Step(cmd, <<Msg("approved_summary", hr.posted)>>, <<>>)
       /\ h' = [h EXCEPT ![k] = Idle]
  ELSE LET pending == SelectPending(rows, hr.ids[hr.i]) IN
       IF pending.id = 0
       THEN /\ Step(cmd, <<Msg("not_found", hr.ids[hr.i])>>, <<>>)
            /\ h' = [h EXCEPT ![k] = [hr EXCEPT !.pc = "loop", !.i = hr.i + 1]]
       ELSE /\ Step(cmd, <<>>, <<postReplyCall("approve", pending, pending.generated_reply)>>)
            /\ h' = [h EXCEPT ![k] = [hr EXCEPT !.pc = "awaitPublish", !.snap = pending,
                                                 !.text = pending.generated_reply]]

IdSeqs == UNION {[1..n -> 1..MaxTweet] : n \in 1..MaxIds}

Approve(k) ==
  /\ cmdsLeft > 0
  /\ FreeSlot(k)
  /\ cmdsLeft' = cmdsLeft - 1
  /\ \E ids \in IdSeqs :
       ApproveIter(k, [Idle EXCEPT !.kind = "approve", !.ids = ids, !.i = 1],
                   Cmd("approve", ids, NULL))
  /\ UNCHANGED <<rows, replied, sq, tc, pubcount, now, discVars>>

ApproveLoop(k) ==
  /\ h[k].pc = "loop"
  /\ h[k].kind = "approve"
  /\ ApproveIter(k, h[k], NoCmd)
  /\ UNCHANGED <<rows, replied, sq, tc, pubcount, now, cmdsLeft, discVars>>

\* postReply settles; the rest of the loop body up to the 2 s delay
ApprovePublishReturn(k) ==
  /\ h[k].pc = "awaitPublish"
  /\ h[k].kind = "approve"
  /\ \E res \in PublishOutcomes :
       LET hr == h[k]
           pending == hr.snap
       IN IF res = "ok"
          THEN /\ PublishSucceeded(pending, "posted", pending.generated_reply)
               /\ Settle(Resp("publisher", res, {}, {}), <<>>, <<>>)
               /\ h' = [h EXCEPT ![k] = [hr EXCEPT !.pc = "loop", !.i = hr.i + 1,
                                                   !.posted = hr.posted + 1]]
          ELSE /\ Settle(Resp("publisher", res, {}, {}),
                         postReplyAlerts(res) \o <<Msg("failed_to_post", pending.id)>>, <<>>)
               /\ h' = [h EXCEPT ![k] = [hr EXCEPT !.pc = "loop", !.i = hr.i + 1,
                                                   !.failed = hr.failed + 1]]
               /\ PublishFailed(pending, "posted", pending.generated_reply)
  /\ UNCHANGED <<now, cmdsLeft, discVars>>

(* --------------------- "2 #id ..." : reject by ids -------------------- *)
\* the loop runs without an await while the listed rows are pending
RECURSIVE RejectRun(_, _, _)
RejectRun(r, ids, i) ==
  IF i > Len(ids) THEN [rows |-> r, i |-> i, n |-> 0, stop |-> "end"]
  ELSE IF SelectPending(r, ids[i]).id = 0
       THEN [rows |-> r, i |-> i, n |-> 0, stop |-> "not_found"]
       ELSE LET rest == RejectRun(RejectRow(r, ids[i]), ids, i + 1)
            IN [rest EXCEPT !.n = rest.n + 1]

RejectIter(k, hr, cmd) ==
  LET run == RejectRun(rows, hr.ids, hr.i) IN
  /\ rows' = run.rows
  /\ IF run.stop = "end"
     THEN /\ Step(cmd, <<Msg("rejected_summary", hr.rejected + run.n)>>, <<>>)
          /\ h' = [h EXCEPT ![k] = Idle]
     ELSE /\ Step(cmd, <<Msg("not_found", hr.ids[run.i])>>, <<>>)
          /\ h' = [h EXCEPT ![k] = [hr EXCEPT !.pc = "loop", !.i = run.i + 1,
                                              !.rejected = hr.rejected + run.n]]

Reject(k) ==
  /\ cmdsLeft > 0
  /\ FreeSlot(k)
  /\ cmdsLeft' = cmdsLeft - 1
  /\ \E ids \in IdSeqs :
       RejectIter(k, [Idle EXCEPT !.kind = "reject", !.ids = ids, !.i = 1],
                  Cmd("reject", ids, NULL))
  /\ UNCHANGED <<replied, sq, tc, pubcount, now, discVars>>

RejectLoop(k) ==
  /\ h[k].pc = "loop"
  /\ h[k].kind = "reject"
  /\ RejectIter(k, h[k], NoCmd)
  /\ UNCHANGED <<replied, sq, tc, pubcount, now, cmdsLeft, discVars>>

(* ---------------------- "#id text" : custom reply --------------------- *)
Edit(k) ==
  /\ cmdsLeft > 0
  /\ FreeSlot(k)
  /\ cmdsLeft' = cmdsLeft - 1
  /\ \E targetId \in 1..MaxTweet, replyText \in EditTexts :
       LET pending == SelectPending(rows, targetId) IN
       IF pending.id = 0
       THEN /\ Step(Cmd("edit", <<targetId>>, replyText),
                    <<Msg("no_pending_with_id", targetId)>>, <<>>)
            /\ h' = h
       ELSE /\ Step(Cmd("edit", <<targetId>>, replyText), <<>>,
                    <<postReplyCall("edit", pending, replyText)>>)
            /\ h' = [h EXCEPT ![k] = [Idle EXCEPT !.pc = "awaitPublish", !.kind = "edit",
                                                   !.snap = pending, !.text = replyText]]
  /\ UNCHANGED <<rows, replied, sq, tc, pubcount, now, discVars>>

EditPublishReturn(k) ==
  /\ h[k].pc = "awaitPublish"
  /\ h[k].kind = "edit"
  /\ \E res \in PublishOutcomes :
       LET hr == h[k]
           pending == hr.snap
       IN IF res = "ok"
          THEN /\ PublishSucceeded(pending, "edited", hr.text)
               /\ Settle(Resp("publisher", res, {}, {}),
                         <<Msg("custom_posted", pending.id)>>, <<>>)
          ELSE /\ Settle(Resp("publisher", res, {}, {}),
                         postReplyAlerts(res) \o <<Msg("failed_to_post_edited", pending.id)>>, <<>>)
               /\ PublishFailed(pending, "edited", hr.text)
  /\ h' = [h EXCEPT ![k] = Idle]
  /\ UNCHANGED <<now, cmdsLeft, discVars>>

(* ------------------------ unrecognised messages ----------------------- *)
\* plain text matching none of the three patterns: bare "1" / "2", or anything else
PlainTexts == {"1", "hello"}

\* text starting with "/" that no onText pattern matches: an unknown command, or
\* a known one without its argument
SlashTexts == {"/foo", "/fetch"}

\* the fallback of the message handler
OtherText ==
  /\ cmdsLeft > 0
  /\ cmdsLeft' = cmdsLeft - 1
  /\ \E text \in PlainTexts :
       Step(Cmd("text", <<>>, text),
            <<Msg(IF text \in {"1", "2"} THEN "specify_id" ELSE "not_understood", 0)>>, <<>>)
  /\ UNCHANGED <<rows, replied, sq, tc, h, pubcount, now, discVars>>

\* the message handler returns on a leading "/", and no command handler runs
SlashUnmatched ==
  /\ cmdsLeft > 0
  /\ cmdsLeft' = cmdsLeft - 1
  /\ \E text \in SlashTexts : Step(Cmd("slash", <<>>, text), <<>>, <<>>)
  /\ UNCHANGED <<rows, replied, sq, tc, h, pubcount, now, discVars>>

(* ----------------------------- discovery ------------------------------ *)
GenOutcomes == GenTexts \cup {"throw"}     \* generateReply returns a text or throws

\* SELECT id FROM pending_replies WHERE tweet_id = ?
Existing(r, t) == \E j \in 1..Len(r) : r[j].tweet_id = t

\* pending_replies.tweet_id declared without UNIQUE
UniqueViolation_None(r, t) == FALSE

\* pending_replies.tweet_id TEXT UNIQUE NOT NULL: an INSERT repeating a tweet_id throws
UniqueViolation(r, t) == \E j \in 1..Len(r) : r[j].tweet_id = t

\* INSERT INTO pending_replies (...) VALUES (...): the row as stored
NewRow(t, reply, st, stype, squery) ==
  [tweet_id |-> t, tweet_author |-> AuthorOf(t), generated_reply |-> reply,
   final_reply |-> NULL, status |-> st, created_at |-> now, resolved_at |-> NoTime,
   source_type |-> stype, source_query |-> squery]

\* fetchUserTweets with the one-hour check left out
fetchUserTweets_NoWindow(username, sinceId, skipTimeFilter) ==
  SUBSET {t \in TimelineIds \cap corpus : AuthorOf(t) = username /\ t > sinceId}

\* fetchUserTweets: any part of the account's timeline newer than sinceId and, unless
\* skipTimeFilter, not older than an hour; or [] on error
fetchUserTweets(username, sinceId, skipTimeFilter) ==
  SUBSET {t \in TimelineIds \cap corpus : /\ AuthorOf(t) = username
                                          /\ t > sinceId
                                          /\ skipTimeFilter \/ t \notin old}

Newest(S) == CHOOSE t \in S : \A u \in S : u <= t

(* ------------------------------- /fetch ------------------------------- *)
Fetch(k) ==
  /\ cmdsLeft > 0
  /\ FreeSlot(k)
  /\ cmdsLeft' = cmdsLeft - 1
  /\ \E username \in {AuthorOf(t) : t \in TweetIds} :
       /\ h' = [h EXCEPT ![k] = [Idle EXCEPT !.pc = "awaitFetch", !.kind = "fetch",
                                              !.user = username]]
       /\ Step(Cmd("fetch", <<>>, username), <<Msg("fetching", 0)>>, <<>>)
  /\ UNCHANGED <<rows, replied, sq, tc, pubcount, now, discVars>>

FetchTweetsReturn(k) ==
  /\ h[k].pc = "awaitFetch"
  /\ h[k].kind = "fetch"
  /\ \E tweets \in fetchUserTweets(h[k].user, 0, TRUE) :
       LET fetched == Resp("timeline", "ok", tweets, tweets \cap old) IN
       IF tweets = {}
       THEN /\ Settle(fetched, <<Msg("no_recent_tweets", 0)>>, <<>>)
            /\ h' = [h EXCEPT ![k] = Idle]
       ELSE LET latest == Newest(tweets) IN
            IF Existing(rows, latest)
            THEN /\ Settle(fetched, <<Msg("already_have", latest)>>, <<>>)
                 /\ h' = [h EXCEPT ![k] = Idle]
            ELSE /\ Settle(fetched, <<>>, <<>>)
                 /\ h' = [h EXCEPT ![k] = [h[k] EXCEPT !.pc = "awaitGen",
                                                       !.snap = [NoSnap EXCEPT !.tweet_id = latest]]]
  /\ UNCHANGED <<rows, replied, sq, tc, pubcount, now, cmdsLeft, discVars>>

FetchGenReturn(k) ==
  /\ h[k].pc = "awaitGen"
  /\ h[k].kind = "fetch"
  /\ \E reply \in GenOutcomes :
       LET latest == h[k].snap.tweet_id IN
       IF reply = "throw" \/ UniqueViolation(rows, latest)
       THEN /\ Emit(<<Msg("fetch_failed", 0)>>, <<>>)
            /\ rows' = rows
       ELSE /\ rows' = Append(rows, NewRow(latest, reply, "pending", "account", NULL))
            /\ Emit(<<Msg("approval", Len(rows) + 1)>>, <<>>)
  /\ h' = [h EXCEPT ![k] = Idle]
  /\ UNCHANGED <<replied, sq, tc, pubcount, now, cmdsLeft, discVars>>

(* ------------------------------- /regen ------------------------------- *)
\* SELECT ... WHERE status = 'pending' ORDER BY created_at DESC LIMIT 1
LatestPending(r) ==
  {id \in AllPending(r) : \A j \in AllPending(r) : r[j].created_at <= r[id].created_at}

Regen(k) ==
  /\ cmdsLeft > 0
  /\ FreeSlot(k)
  /\ cmdsLeft' = cmdsLeft - 1
  /\ \E arg \in 0..MaxTweet :          \* 0: no id given
       \E regenRow \in (IF arg = 0
                        THEN (IF LatestPending(rows) = {} THEN {NoSnap}
                              ELSE {Snap(rows, id) : id \in LatestPending(rows)})
                        ELSE {SelectPending(rows, arg)}) :
         IF regenRow.id = 0
         THEN /\ Step(Cmd("regen", <<arg>>, NULL), <<Msg("no_pending_to_regen", 0)>>, <<>>)
              /\ h' = h
         ELSE /\ Step(Cmd("regen", <<arg>>, NULL), <<>>, <<>>)
              /\ h' = [h EXCEPT ![k] = [Idle EXCEPT !.pc = "awaitGen", !.kind = "regen",
                                                     !.snap = regenRow]]
  /\ UNCHANGED <<rows, replied, sq, tc, pubcount, now, discVars>>

\* UPDATE pending_replies SET generated_reply = ?, final_reply = NULL WHERE id = ?
RegenWrite_ClearsFinal(r, id, newReply) ==
  [r EXCEPT ![id].generated_reply = newReply, ![id].final_reply = NULL]

\* UPDATE pending_replies SET generated_reply = ? WHERE id = ?
RegenWrite(r, id, newReply) ==
  [r EXCEPT ![id].generated_reply = newReply]

RegenReturn(k) ==
  /\ h[k].pc = "awaitGen"
  /\ h[k].kind = "regen"
  /\ \E newReply \in GenOutcomes :
       IF newReply = "throw"
       THEN /\ Emit(<<Msg("regen_failed", h[k].snap.id)>>, <<>>)
            /\ rows' = rows
       ELSE /\ rows' = RegenWrite(rows, h[k].snap.id, newReply)
            /\ Emit(<<Msg("regenerated", h[k].snap.id)>>, <<>>)
  /\ h' = [h EXCEPT ![k] = Idle]
  /\ UNCHANGED <<replied, sq, tc, pubcount, now, cmdsLeft, discVars>>

(* ---------------------------- pollAccounts ---------------------------- *)
AccountList == <<"alice">>                 \* SELECT ... FROM tracked_accounts

PollIdle == [pc |-> "idle", accts |-> <<>>, idx |-> 0, newest |-> 0, tweet |-> 0]

PollStart(r) ==
  /\ runsLeft > 0
  /\ poll[r].pc = "idle"
  /\ runsLeft' = runsLeft - 1
  /\ poll' = [poll EXCEPT ![r] =
       [PollIdle EXCEPT !.pc = "awaitFetch", !.idx = 1,
                        !.accts = [j \in 1..Len(AccountList) |->
                                     [username |-> AccountList[j],
                                      last_tweet_id |-> last_tweet_id[AccountList[j]]]]]]
  /\ Emit(<<>>, <<>>)
  /\ UNCHANGED <<rows, last_tweet_id, srch, apprVars>>

\* the end of one pass of the account loop: the next account, or the end of the run
PollAdvance(r, pr) ==
  IF pr.idx + 1 > Len(pr.accts)
  THEN poll' = [poll EXCEPT ![r] = PollIdle]
  ELSE poll' = [poll EXCEPT ![r] = [pr EXCEPT !.pc = "awaitFetch", !.idx = pr.idx + 1,
                                              !.newest = 0, !.tweet = 0]]

\* UPDATE tracked_accounts SET last_tweet_id = ? WHERE id = ?
SetLastTweetId(username, newestId) ==
  last_tweet_id' = [last_tweet_id EXCEPT ![username] = newestId]

PollFetchReturn(r) ==
  /\ poll[r].pc = "awaitFetch"
  /\ LET pr == poll[r]
         account == pr.accts[pr.idx]
     IN \E tweets \in fetchUserTweets(account.username, account.last_tweet_id, FALSE) :
          /\ Settle(Resp("timeline", "ok", tweets, tweets \cap old), <<>>, <<>>)
          /\ IF tweets = {}
             THEN /\ PollAdvance(r, pr)
                  /\ UNCHANGED last_tweet_id
             ELSE IF Existing(rows, Newest(tweets))
                  THEN /\ SetLastTweetId(account.username, Newest(tweets))
                       /\ PollAdvance(r, pr)
                  ELSE /\ poll' = [poll EXCEPT ![r] = [pr EXCEPT !.pc = "awaitGen",
                                                                 !.newest = Newest(tweets),
                                                                 !.tweet = Newest(tweets)]]
                       /\ UNCHANGED last_tweet_id
  /\ UNCHANGED <<rows, srch, runsLeft, apprVars>>

PollGenReturn(r) ==
  /\ poll[r].pc = "awaitGen"
  /\ LET pr == poll[r]
         account == pr.accts[pr.idx]
     IN \E res \in GenOutcomes :
          LET reply == IF res = "throw" THEN "" ELSE res
              status == IF res = "throw" THEN "new" ELSE "pending"
          IN IF UniqueViolation(rows, pr.tweet)
             THEN \* the INSERT throws: the run ends in its caller's catch
                  /\ poll' = [poll EXCEPT ![r] = PollIdle]
                  /\ Emit(<<>>, <<>>)
                  /\ UNCHANGED <<rows, last_tweet_id>>
             ELSE /\ rows' = Append(rows, NewRow(pr.tweet, reply, status, "account", NULL))
                  /\ IF status = "pending"
                     THEN /\ Emit(<<Msg("approval", Len(rows) + 1)>>, <<>>)
                          /\ poll' = [poll EXCEPT ![r] = [pr EXCEPT !.pc = "awaitSend"]]
                          /\ UNCHANGED last_tweet_id
                     ELSE /\ Emit(<<>>, <<>>)
                          /\ SetLastTweetId(account.username, pr.newest)
                          /\ PollAdvance(r, pr)
  /\ UNCHANGED <<srch, runsLeft, apprVars>>

PollSendReturn(r) ==
  /\ poll[r].pc = "awaitSend"
  /\ SetLastTweetId(poll[r].accts[poll[r].idx].username, poll[r].newest)
  /\ PollAdvance(r, poll[r])
  /\ Emit(<<>>, <<>>)
  /\ UNCHANGED <<rows, srch, runsLeft, apprVars>>

(* ---------------------------- pollSearches ---------------------------- *)
MAX_CANDIDATES == 20
BATCH_SIZE == 5
MinTextLen == 30            \* text.length < 30
MinTextLenNoUrls == 20      \* textWithoutUrls.length < 20
MaxHashtags == 3            \* hashtagCount > 3

\* the posts the content source holds: OkTweet is the text "ok", every other one a
\* plain 40-character original post without links, hashtags or spam words
TweetAttrs(t) ==
  [isReply |-> FALSE,
   len |-> IF t = OkTweet THEN 2 ELSE 40,
   lenNoUrls |-> IF t = OkTweet THEN 2 ELSE 40,
   hashtags |-> 0,
   spam |-> FALSE]

\* the filter without its two length checks
passesTweetQualityFilter_NoLength(tw, stale) ==
  IF tw.isReply THEN FALSE
  ELSE IF tw.hashtags > MaxHashtags THEN FALSE
  ELSE IF tw.spam THEN FALSE
  ELSE IF stale THEN FALSE
  ELSE TRUE

\* stale: Date.now() - createdAt > 24 h at the time of the call
passesTweetQualityFilter(tw, stale) ==
  IF tw.isReply THEN FALSE
  ELSE IF tw.len < MinTextLen THEN FALSE
  ELSE IF tw.lenNoUrls < MinTextLenNoUrls THEN FALSE
  ELSE IF tw.hashtags > MaxHashtags THEN FALSE
  ELSE IF tw.spam THEN FALSE
  ELSE IF stale THEN FALSE
  ELSE TRUE

ExcludedAuthor == "kyushithe"
Lower(a) == IF a = "KyushiThe" THEN "kyushithe" ELSE a    \* toLowerCase on the authors used

\* active search queries first, then active communities
SourceList == <<[type |-> "search", name |-> "q1"], [type |-> "community", name |-> "c1"]>>

SrchIdle == [pc |-> "idle", src |-> 0, cands |-> <<>>, from |-> 0, digest |-> <<>>]

\* ascending list of a set of post ids (the order of the source's page)
RECURSIVE SeqOf(_)
SeqOf(S) == IF S = {} THEN <<>>
            ELSE LET m == CHOOSE t \in S : \A u \in S : t <= u
                 IN <<m>> \o SeqOf(S \ {m})

\* the inner loop over one source's tweets: dedup check, exclusion, quality filter
Phase1Filter(r, tweets, stale, source) ==
  SelectSeq([j \in 1..Len(tweets) |->
               [tweet |-> tweets[j], sourceQuery |-> source.name, sourceType |-> source.type]],
            LAMBDA c : /\ ~Existing(r, c.tweet)
                       /\ Lower(AuthorOf(c.tweet)) # ExcludedAuthor
                       /\ passesTweetQualityFilter(TweetAttrs(c.tweet), c.tweet \in stale))

\* the list handed on as phase 1 left it
Cap_None(cands) == cands

\* candidates.length = MAX_CANDIDATES when longer
Cap(cands) == IF Len(cands) > MAX_CANDIDATES THEN SubSeq(cands, 1, MAX_CANDIDATES) ELSE cands

SearchStart ==
  /\ runsLeft > 0
  /\ srch.pc = "idle"
  /\ runsLeft' = runsLeft - 1
  /\ srch' = [SrchIdle EXCEPT !.pc = "awaitSearch", !.src = 1]
  /\ Emit(<<>>, <<>>)
  /\ UNCHANGED <<rows, last_tweet_id, poll, apprVars>>

\* searchTweets / fetchCommunityTweets settles: filter its page, then the next source,
\* or the cap and the first batch of generation calls
\* what searchTweets / fetchCommunityTweets resolve with: a page of posts, some
\* of them older than 24 h, or no posts after an error they caught
SearchResults ==
  UNION {{Resp("search", "ok", page, stale) : stale \in SUBSET page} :
           page \in SUBSET corpus}
  \cup {Resp("search", "error", {}, {})}

\* the loop over the sources goes on with the first one (generation after one source)
MoreSources_None(s) == FALSE

\* the loops over queries and communities have a source left
MoreSources(s) == s.src < Len(SourceList)

SearchFetchReturn ==
  /\ srch.pc = "awaitSearch"
  /\ \E result \in SearchResults :
       LET source == SourceList[srch.src]
           found == Phase1Filter(rows, SeqOf(result.page), result.stale, source)
           all == srch.cands \o found
       IN /\ IF MoreSources(srch)
             THEN srch' = [srch EXCEPT !.src = srch.src + 1, !.cands = all]
             ELSE IF Cap(all) = <<>>
                  THEN srch' = SrchIdle
                  ELSE srch' = [srch EXCEPT !.pc = "awaitBatch", !.cands = Cap(all), !.from = 1]
          /\ Settle(result, <<>>, <<>>)
  /\ UNCHANGED <<rows, last_tweet_id, poll, runsLeft, apprVars>>

Min(a, b) == IF a < b THEN a ELSE b

\* the loop over the settled results leaving at the first rejected call (break for continue)
RECURSIVE InsertBatch_StopAtRejected(_, _, _, _, _, _)
InsertBatch_StopAtRejected(r, cands, res, j, hi, digest) ==
  IF j > hi \/ res[j] = "throw" THEN [rows |-> r, digest |-> digest, thrown |-> FALSE]
  ELSE IF UniqueViolation(r, cands[j].tweet)
       THEN [rows |-> r, digest |-> digest, thrown |-> TRUE]
       ELSE InsertBatch_StopAtRejected(Append(r, NewRow(cands[j].tweet, res[j], "pending",
                                                        cands[j].sourceType, cands[j].sourceQuery)),
                                       cands, res, j + 1, hi, Append(digest, Len(r) + 1))

\* the loop over the settled results of one batch: INSERT and digest entry per fulfilled call
RECURSIVE InsertBatch(_, _, _, _, _, _)
InsertBatch(r, cands, res, j, hi, digest) ==
  IF j > hi THEN [rows |-> r, digest |-> digest, thrown |-> FALSE]
  ELSE IF res[j] = "throw" THEN InsertBatch(r, cands, res, j + 1, hi, digest)
  ELSE IF UniqueViolation(r, cands[j].tweet)
       THEN [rows |-> r, digest |-> digest, thrown |-> TRUE]
       ELSE InsertBatch(Append(r, NewRow(cands[j].tweet, res[j], "pending",
                                         cands[j].sourceType, cands[j].sourceQuery)),
                        cands, res, j + 1, hi, Append(digest, Len(r) + 1))

\* sendDigestMessage: a header, then one message per queued row
DigestMessages(items) ==
  <<Msg("digest_header", Len(items))>> \o [j \in 1..Len(items) |-> Msg("digest_item", items[j])]

SearchBatchReturn ==
  /\ srch.pc = "awaitBatch"
  /\ LET hi == Min(srch.from + BATCH_SIZE - 1, Len(srch.cands)) IN
     \E res \in [srch.from..hi -> GenOutcomes] :
       LET out == InsertBatch(rows, srch.cands, res, srch.from, hi, srch.digest)
           \* Promise.allSettled: the positions fulfilled and the positions rejected
           settled == Resp("generate", "settled",
                           {j \in srch.from..hi : res[j] # "throw"},
                           {j \in srch.from..hi : res[j] = "throw"})
       IN
       /\ rows' = out.rows
       /\ IF out.thrown
          THEN \* the INSERT throws out of pollSearches: no digest is sent
               /\ srch' = SrchIdle
               /\ Settle(settled, <<>>, <<>>)
          ELSE IF hi < Len(srch.cands)
               THEN /\ srch' = [srch EXCEPT !.from = hi + 1, !.digest = out.digest]
                    /\ Settle(settled, <<>>, <<>>)
               ELSE /\ srch' = SrchIdle
                    /\ Settle(settled,
                              IF out.digest = <<>> THEN <<>> ELSE DigestMessages(out.digest), <<>>)
  /\ UNCHANGED <<last_tweet_id, poll, runsLeft, apprVars>>

(* ------------------------------- clock -------------------------------- *)
\* hours in which no row was stamped are not told apart
Stamped(t) == \E j \in 1..Len(rows) : rows[j].created_at = t \/ rows[j].resolved_at = t

Tick ==
  /\ now < MaxClock
  /\ Stamped(now)
  /\ now' = now + 1
  /\ Emit(<<>>, <<>>)
  /\ UNCHANGED <<rows, replied, sq, tc, h, pubcount, cmdsLeft, discVars>>

(* ---------------------------------------------------------------------- *)
\* the database file as first created, with the sources the operator configured
Init ==
  /\ rows = <<>>
  /\ replied = <<>>
  /\ sq = [q \in Queries |-> 0]
  /\ tc = [c \in Communities |-> 0]
  /\ last_tweet_id = [a \in Accounts |-> 0]
  /\ poll = [r \in 1..MaxPolls |-> PollIdle]
  /\ srch = SrchIdle
  /\ h = [k \in Handlers |-> Idle]
  /\ pubcount = [t \in TweetIds |-> 0]
  /\ called = <<>>
  /\ sent = <<>>
  /\ recv = NoCmd
  /\ resp = NoResp
  /\ corpus = TweetIds
  /\ old = {}
  /\ fb = FbIdle
  /\ drafts = DraftsInit
  /\ bip = BipInit
  /\ sched = SchedInit
  /\ follow_backs = [q \in Queries |-> 0]
  /\ cron = CronInit
  /\ flt = NoFlt
  /\ now = 1
  /\ cmdsLeft = MaxCmds
  /\ runsLeft = MaxRuns

Next ==
  \/ \E r \in 1..MaxPolls : PollStart(r)
  \/ \E r \in 1..MaxPolls : PollFetchReturn(r)
  \/ \E r \in 1..MaxPolls : PollGenReturn(r)
  \/ \E r \in 1..MaxPolls : PollSendReturn(r)
  \/ SearchStart
  \/ SearchFetchReturn
  \/ SearchBatchReturn
  \/ \E k \in Handlers : Fetch(k)
  \/ \E k \in Handlers : FetchTweetsReturn(k)
  \/ \E k \in Handlers : FetchGenReturn(k)
  \/ \E k \in Handlers : Regen(k)
  \/ \E k \in Handlers : RegenReturn(k)
  \/ RejectAll
  \/ \E k \in Handlers : Approve(k)
  \/ \E k \in Handlers : ApproveLoop(k)
  \/ \E k \in Handlers : ApprovePublishReturn(k)
  \/ \E k \in Handlers : Reject(k)
  \/ \E k \in Handlers : RejectLoop(k)
  \/ \E k \in Handlers : Edit(k)
  \/ \E k \in Handlers : EditPublishReturn(k)
  \/ OtherText
  \/ SlashUnmatched
  \/ Tick

Spec == Init /\ [][Next]_vars

\* the same program observed with more discovery runs and fewer operator commands
InitDiscovery ==
  /\ rows = <<>>
  /\ replied = <<>>
  /\ sq = [q \in Queries |-> 0]
  /\ tc = [c \in Communities |-> 0]
  /\ last_tweet_id = [a \in Accounts |-> 0]
  /\ poll = [r \in 1..MaxPolls |-> PollIdle]
  /\ srch = SrchIdle
  /\ h = [k \in Handlers |-> Idle]
  /\ pubcount = [t \in TweetIds |-> 0]
  /\ called = <<>>
  /\ sent = <<>>
  /\ recv = NoCmd
  /\ resp = NoResp
  /\ corpus = TweetIds
  /\ old = {}
  /\ fb = FbIdle
  /\ drafts = DraftsInit
  /\ bip = BipInit
  /\ sched = SchedInit
  /\ follow_backs = [q \in Queries |-> 0]
  /\ cron = CronInit
  /\ flt = NoFlt
  /\ now = 1
  /\ cmdsLeft = MaxDiscCmds
  /\ runsLeft = MaxDiscRuns

SpecDiscovery == InitDiscovery /\ [][Next]_vars

\* the same, the search source also holding the text "ok" and a post of the bot's account
InitSearch ==
  /\ rows = <<>>
  /\ replied = <<>>
  /\ sq = [q \in Queries |-> 0]
  /\ tc = [c \in Communities |-> 0]
  /\ last_tweet_id = [a \in Accounts |-> 0]
  /\ poll = [r \in 1..MaxPolls |-> PollIdle]
  /\ srch = SrchIdle
  /\ h = [k \in Handlers |-> Idle]
  /\ pubcount = [t \in TweetIds |-> 0]
  /\ called = <<>>
  /\ sent = <<>>
  /\ recv = NoCmd
  /\ resp = NoResp
  /\ corpus = SearchTweetIds
  /\ old = {}
  /\ fb = FbIdle
  /\ drafts = DraftsInit
  /\ bip = BipInit
  /\ sched = SchedInit
  /\ follow_backs = [q \in Queries |-> 0]
  /\ cron = CronInit
  /\ flt = NoFlt
  /\ now = 1
  /\ cmdsLeft = MaxDiscCmds
  /\ runsLeft = MaxRuns

SpecSearch == InitSearch /\ [][Next]_vars

\* an installation with more active queries, each matching the same posts: the
\* candidates phase 1 has pushed when the fetch of its last source is awaited
CapQueries == <<"q1", "q2", "q3", "q4", "q5", "q6", "q7", "q8", "q9", "q10", "q11", "q12">>
CapCands ==
  [j \in 1..MaxCapLen |->
     [tweet |-> ((j - 1) % MaxTweet) + 1,
      sourceQuery |-> CapQueries[((j - 1) \div MaxTweet) + 1],
      sourceType |-> "search"]]

\* pollSearches from the fetch of its last source on, no operator command arriving
InitCap ==
  /\ rows = <<>>
  /\ replied = <<>>
  /\ sq = [q \in Queries |-> 0]
  /\ tc = [c \in Communities |-> 0]
  /\ last_tweet_id = [a \in Accounts |-> 0]
  /\ poll = [r \in 1..MaxPolls |-> PollIdle]
  /\ \E n \in 0..MaxCapLen :
       srch = [SrchIdle EXCEPT !.pc = "awaitSearch", !.src = Len(SourceList),
                               !.cands = SubSeq(CapCands, 1, n)]
  /\ h = [k \in Handlers |-> Idle]
  /\ pubcount = [t \in TweetIds |-> 0]
  /\ called = <<>>
  /\ sent = <<>>
  /\ recv = NoCmd
  /\ resp = NoResp
  /\ corpus = TweetIds
  /\ old = {}
  /\ fb = FbIdle
  /\ drafts = DraftsInit
  /\ bip = BipInit
  /\ sched = SchedInit
  /\ follow_backs = [q \in Queries |-> 0]
  /\ cron = CronInit
  /\ flt = NoFlt
  /\ now = 1
  /\ cmdsLeft = 0
  /\ runsLeft = MaxRuns

NextCap ==
  \/ SearchStart
  \/ SearchFetchReturn
  \/ SearchBatchReturn

SpecCap == InitCap /\ [][NextCap]_vars

(* ------------------------- the filter on its own ---------------------- *)
StartHour == 20     \* the hour of day 0 at which the clock of these behaviours starts
MaxHours == 5       \* hours that pass in one behaviour
MaxEvals == 2       \* evaluations of the quality filter on one candidate

StaleAfterHours == 24       \* tweetAge > 24 * 60 * 60 * 1000

\* Date.now() - new Date(tweet.createdAt).getTime() > 24 h, the call made at hour `at`
IsStale(createdAt, at) == at - createdAt > StaleAfterHours

\* what every specification starts from: nothing in flight, nothing received
Fresh ==
  /\ sq = [q \in Queries |-> 0]
  /\ tc = [c \in Communities |-> 0]
  /\ last_tweet_id = [a \in Accounts |-> 0]
  /\ poll = [r \in 1..MaxPolls |-> PollIdle]
  /\ h = [k \in Handlers |-> Idle]
  /\ called = <<>>
  /\ sent = <<>>
  /\ recv = NoCmd
  /\ resp = NoResp
  /\ corpus = TweetIds

\* an hour goes by
HourPasses ==
  /\ now < StartHour + MaxHours
  /\ now' = now + 1
  /\ Emit(<<>>, <<>>)
  /\ UNCHANGED <<rows, replied, sq, tc, h, pubcount, cmdsLeft, discVars>>

\* the candidates the filter is evaluated on: each check just below and just at its
\* threshold, created about a day before the first evaluation
FilterCandidates ==
  {tw \in [isReply : BOOLEAN, len : {2, 29, 30, 40}, lenNoUrls : {2, 19, 20, 40},
           hashtags : {3, 4}, spam : BOOLEAN] : tw.lenNoUrls <= tw.len}

\* passesTweetQualityFilter(tweet) called now
FilterEval ==
  /\ Len(flt.evals) < MaxEvals
  /\ flt' = [flt EXCEPT !.evals =
               Append(@, [at |-> now,
                          result |-> passesTweetQualityFilter(flt.tw,
                                                              IsStale(flt.createdAt, now))])]
  /\ Emit(<<>>, <<>>)
  /\ UNCHANGED <<rows, replied, sq, tc, last_tweet_id, poll, srch, h, pubcount,
                 corpus, old, drafts, bip, sched, follow_backs, fb, cron, now, cmdsLeft, runsLeft>>

InitFilter ==
  /\ Fresh
  /\ pubcount = [t \in TweetIds |-> 0]
  /\ rows = <<>>
  /\ replied = <<>>
  /\ srch = SrchIdle
  /\ old = {}
  /\ fb = FbIdle
  /\ drafts = DraftsInit
  /\ bip = BipInit
  /\ sched = SchedInit
  /\ follow_backs = [q \in Queries |-> 0]
  /\ cron = CronInit
  /\ now = StartHour
  /\ cmdsLeft = 0
  /\ runsLeft = 0
  /\ \E tw \in FilterCandidates :
       \E age \in {StaleAfterHours - 1, StaleAfterHours, StaleAfterHours + 1} :
         flt = [tw |-> tw, createdAt |-> StartHour - age, evals |-> <<>>]

NextFilter ==
  \/ FilterEval
  \/ HourPasses

SpecFilter == InitFilter /\ [][NextFilter]_vars

(* ---------------------------- checkFeedback --------------------------- *)
MaxFbCmds == 3      \* /feedback commands in a behaviour of SpecFeedback

CooldownHours == 4          \* Date.now() - 4 * 60 * 60 * 1000
WindowHours == 168          \* Date.now() - 7 * 24 * 60 * 60 * 1000
FeedbackLimit == 20         \* LIMIT 20

\* texts are sequences of character codes; day 0 is 2026-01-10
Digits2(n) == <<48 + (n \div 10), 48 + (n % 10)>>
DateText(t) == <<50, 48, 50, 54, 45, 48, 49, 45>> \o Digits2(10 + (t \div 24))

\* CURRENT_TIMESTAMP as SQLite stores it: 'YYYY-MM-DD HH:MM:SS'
SqliteTimestamp(t) ==
  DateText(t) \o <<32>> \o Digits2(t % 24) \o <<58, 48, 48, 58, 48, 48>>

\* Date.prototype.toISOString: 'YYYY-MM-DDTHH:MM:SS.sssZ'
toISOString(t) ==
  DateText(t) \o <<84>> \o Digits2(t % 24) \o <<58, 48, 48, 58, 48, 48, 46, 48, 48, 48, 90>>

\* a < b in SQLite's BINARY collation: the first differing byte decides, then the length
RECURSIVE TextLess(_, _)
TextLess(a, b) ==
  IF b = <<>> THEN FALSE
  ELSE IF a = <<>> THEN TRUE
  ELSE IF Head(a) # Head(b) THEN Head(a) < Head(b)
  ELSE TextLess(Tail(a), Tail(b))

\* checked_follow_back_at < ?   with ? the ISO string of the cutoff
CheckedBefore(checked, cutoff) == TextLess(SqliteTimestamp(checked), toISOString(cutoff))

\* the WHERE clause of checkFeedback's SELECT, evaluated at hour `at`
Selected(a, at) ==
  /\ TextLess(toISOString(at - WindowHours), SqliteTimestamp(a.created_at))
  /\ \/ a.checked_follow_back_at = NoTime
     \/ CheckedBefore(a.checked_follow_back_at, at - CooldownHours)
  /\ a.reply_tweet_id > 0           \* IS NOT NULL (ids start at 1001)

\* ORDER BY created_at DESC (rows of one instant in id order)
RECURSIVE NewestFirst(_, _)
NewestFirst(ra, ids) ==
  IF ids = {} THEN <<>>
  ELSE LET m == CHOOSE j \in ids :
                  \A i \in ids : \/ ra[i].created_at < ra[j].created_at
                                 \/ (ra[i].created_at = ra[j].created_at /\ j <= i)
       IN <<m>> \o NewestFirst(ra, ids \ {m})

\* the rows the SELECT returns, with the columns the loop reads
SelectAuthors(ra, at) ==
  LET ids == NewestFirst(ra, {j \in 1..Len(ra) : Selected(ra[j], at)})
      first == SubSeq(ids, 1, Min(Len(ids), FeedbackLimit))
  IN [n \in 1..Len(first) |->
        [id |-> first[n], username |-> ra[first[n]].username,
         followed_back |-> ra[first[n]].followed_back,
         got_reply_back |-> ra[first[n]].got_reply_back,
         source_query |-> ra[first[n]].source_query]]

\* checkFeedback() up to its first await, called by handler k (0: the scheduled task)
checkFeedbackCall(k) ==
  LET authors == SelectAuthors(replied, now) IN
  IF authors = <<>>
  THEN fb' = [FbIdle EXCEPT !.lastFeedbackTime = now]
  ELSE fb' = [fb EXCEPT !.pc = "awaitFollowers", !.by = k, !.authors = authors]

\* "/feedback": the notice, then triggerFeedback
Feedback(k) ==
  /\ cmdsLeft > 0
  /\ FreeSlot(k)
  /\ cmdsLeft' = cmdsLeft - 1
  /\ h' = [h EXCEPT ![k] = [Idle EXCEPT !.pc = "awaitNotice", !.kind = "feedback"]]
  /\ Step(Cmd("feedback", <<>>, NULL), <<Msg("running_feedback", 0)>>, <<>>)
  /\ UNCHANGED <<rows, replied, sq, tc, pubcount, now, discVars>>

FeedbackTrigger(k) ==
  /\ h[k].pc = "awaitNotice"
  /\ h[k].kind = "feedback"
  /\ fb.pc = "idle"
  /\ checkFeedbackCall(k)
  /\ h' = [h EXCEPT ![k].pc = "awaitFeedback"]
  /\ Emit(<<>>, <<>>)
  /\ UNCHANGED <<rows, replied, sq, tc, last_tweet_id, poll, srch, pubcount,
                 corpus, old, drafts, bip, sched, follow_backs, cron, flt, now, cmdsLeft, runsLeft>>

\* checkFeedback has returned to the handler
FeedbackDone(k) ==
  /\ h[k].pc = "awaitFeedback"
  /\ h[k].kind = "feedback"
  /\ ~(fb.pc # "idle" /\ fb.by = k)
  /\ h' = [h EXCEPT ![k] = Idle]
  /\ Emit(<<Msg("feedback_complete", 0)>>, <<>>)
  /\ UNCHANGED <<rows, replied, sq, tc, pubcount, now, cmdsLeft, discVars>>

\* fetchFollowerUsernames settles: the lower-cased follower names, none after an error;
\* then the first author's fetchTweetEngagement call
FeedbackFollowersReturn ==
  /\ fb.pc = "awaitFollowers"
  /\ \E followers \in SUBSET {Lower(AuthorOf(t)) : t \in TweetIds} :
       fb' = [fb EXCEPT !.pc = "awaitEngagement", !.i = 1, !.followers = followers]
  /\ Emit(<<>>, <<>>)
  /\ UNCHANGED <<rows, replied, sq, tc, last_tweet_id, poll, srch, h, pubcount,
                 corpus, old, drafts, bip, sched, follow_backs, cron, flt, now, cmdsLeft, runsLeft>>

\* what the try block of one author ends with: the author replied back or not, the
\* fetch failed (fetchTweetEngagement returns null and false), or a statement threw
EngagementOutcomes == {"replied", "silent", "error", "throw"}

\* the catch block writes nothing
CheckFailed_NoStamp(ra, id) == ra

\* catch: UPDATE replied_authors SET checked_follow_back_at = CURRENT_TIMESTAMP WHERE id = ?
CheckFailed(ra, id) == [ra EXCEPT ![id].checked_follow_back_at = now]

\* UPDATE replied_authors SET followed_back = ?, got_reply_back = ?, ...,
\*        checked_follow_back_at = CURRENT_TIMESTAMP WHERE id = ?
Checked(ra, id, followedBack, gotReplyBack) ==
  [ra EXCEPT ![id].followed_back = followedBack, ![id].got_reply_back = gotReplyBack,
             ![id].checked_follow_back_at = now]

\* the summary is sent after every run that checked somebody
Notable_Always(nf, nr) == TRUE

\* newFollowBacks > 0 || newReplyBacks > 0
Notable(nf, nr) == nf > 0 \/ nr > 0

\* one pass of the author loop; after the last one the summary, if any
\* if (followedBack && !author.followed_back && author.source_query)
\*   UPDATE search_queries SET follow_backs = follow_backs + 1 WHERE query = ?
IncFollowBacks(c, author, followedBack) ==
  IF followedBack /\ ~author.followed_back /\ author.source_query # NULL
  THEN [q \in DOMAIN c |-> IF q = author.source_query THEN c[q] + 1 ELSE c[q]]
  ELSE c

FeedbackEngagementReturn ==
  /\ fb.pc = "awaitEngagement"
  /\ \E outcome \in EngagementOutcomes :
       LET author == fb.authors[fb.i]
           followedBack == Lower(author.username) \in fb.followers
           gotReplyBack == outcome = "replied"
           nf == IF outcome # "throw" /\ followedBack /\ ~author.followed_back
                 THEN fb.newFollowBacks + 1 ELSE fb.newFollowBacks
           nr == IF outcome # "throw" /\ gotReplyBack /\ ~author.got_reply_back
                 THEN fb.newReplyBacks + 1 ELSE fb.newReplyBacks
       IN /\ replied' = IF outcome = "throw"
                        THEN CheckFailed(replied, author.id)
                        ELSE Checked(replied, author.id, followedBack, gotReplyBack)
          /\ follow_backs' = IF outcome = "throw" THEN follow_backs
                           ELSE IncFollowBacks(follow_backs, author, followedBack)
          /\ IF fb.i < Len(fb.authors)
             THEN /\ fb' = [fb EXCEPT !.i = fb.i + 1, !.newFollowBacks = nf,
                                      !.newReplyBacks = nr]
                  /\ Settle(Resp("engagement", outcome, {}, {}), <<>>, <<>>)
             ELSE /\ fb' = [FbIdle EXCEPT !.lastFeedbackTime = now]
                  /\ Settle(Resp("engagement", outcome, {}, {}),
                            IF Notable(nf, nr) THEN <<Msg("feedback_summary", nf + nr)>>
                            ELSE <<>>,
                            <<>>)
  /\ UNCHANGED <<rows, sq, tc, last_tweet_id, poll, srch, h, pubcount,
                 corpus, old, drafts, bip, sched, cron, flt, now, cmdsLeft, runsLeft>>

\* two replies published at StartHour - 2 and not yet checked
InitFeedback ==
  /\ Fresh
  /\ pubcount = [t \in TweetIds |-> 1]
  /\ now = StartHour
  /\ rows = [j \in 1..MaxTweet |->
               [tweet_id |-> j, tweet_author |-> AuthorOf(j), generated_reply |-> "g1",
                final_reply |-> "g1", status |-> "posted", created_at |-> StartHour - 2,
                resolved_at |-> StartHour - 2, source_type |-> "account",
                source_query |-> NULL]]
  /\ replied = [j \in 1..MaxTweet |->
                  [username |-> AuthorOf(j), tweet_id |-> j, reply_id |-> j,
                   source_query |-> NULL, reply_tweet_id |-> 1000 + j,
                   followed_back |-> FALSE, got_reply_back |-> FALSE,
                   checked_follow_back_at |-> NoTime, created_at |-> StartHour - 2]]
  /\ srch = SrchIdle
  /\ old = {}
  /\ fb = FbIdle
  /\ drafts = DraftsInit
  /\ bip = BipInit
  /\ sched = SchedInit
  /\ follow_backs = [q \in Queries |-> 0]
  /\ cron = CronInit
  /\ flt = NoFlt
  /\ cmdsLeft = MaxFbCmds
  /\ runsLeft = 0

NextFeedback ==
  \/ \E k \in Handlers : Feedback(k)
  \/ \E k \in Handlers : FeedbackTrigger(k)
  \/ \E k \in Handlers : FeedbackDone(k)
  \/ FeedbackFollowersReturn
  \/ FeedbackEngagementReturn
  \/ HourPasses

SpecFeedback == InitFeedback /\ [][NextFeedback]_vars

(* --------------------------- scheduled tasks -------------------------- *)
MaxCronCmds == 2    \* start / stop commands in a behaviour of SpecCron
MaxCronTicks == 3   \* scheduled intervals that elapse in a behaviour of SpecCron

\* a timer event, received like a message
Timer(kind) == Cmd(kind, <<>>, NULL)

\* the callback of a task is run at every interval, stopped or not
TaskFires_Always(task) == TRUE

\* node-cron runs the callback of a task that is started; stop() holds it back
TaskFires(task) == task

\* pollAccounts() up to its first await
pollAccountsCall(r) ==
  poll' = [poll EXCEPT ![r] =
    [PollIdle EXCEPT !.pc = "awaitFetch", !.idx = 1,
                     !.accts = [j \in 1..Len(AccountList) |->
                                  [username |-> AccountList[j],
                                   last_tweet_id |-> last_tweet_id[AccountList[j]]]]]]

\* pollSearches() up to its first await
pollSearchesCall == srch' = [SrchIdle EXCEPT !.pc = "awaitSearch", !.src = 1]

\* "/start" and POST /api/polling/start: startPolling() and its answer
StartPolling ==
  /\ cmdsLeft > 0
  /\ cmdsLeft' = cmdsLeft - 1
  /\ IF cron.pollingEnabled
     THEN /\ cron' = cron
          /\ Step(Cmd("start", <<>>, NULL), <<Msg("already_running", 0)>>, <<>>)
     ELSE /\ cron' = [cron EXCEPT !.pollTask = TRUE, !.pollingEnabled = TRUE]
          /\ Step(Cmd("start", <<>>, NULL), <<Msg("polling_started", 0)>>, <<>>)
  /\ UNCHANGED <<rows, replied, sq, tc, last_tweet_id, poll, srch, h, pubcount,
                 corpus, old, drafts, bip, sched, follow_backs, fb, flt, now, runsLeft>>

\* "/stop": stopPolling() and its answer
StopPolling ==
  /\ cmdsLeft > 0
  /\ cmdsLeft' = cmdsLeft - 1
  /\ IF ~cron.pollingEnabled
     THEN /\ cron' = cron
          /\ Step(Cmd("stop", <<>>, NULL), <<Msg("already_stopped", 0)>>, <<>>)
     ELSE /\ cron' = [cron EXCEPT !.pollTask = FALSE, !.pollingEnabled = FALSE]
          /\ Step(Cmd("stop", <<>>, NULL), <<Msg("polling_stopped", 0)>>, <<>>)
  /\ UNCHANGED <<rows, replied, sq, tc, last_tweet_id, poll, srch, h, pubcount,
                 corpus, old, drafts, bip, sched, follow_backs, fb, flt, now, runsLeft>>

\* "/searchon": startSearch() and its answer
StartSearch ==
  /\ cmdsLeft > 0
  /\ cmdsLeft' = cmdsLeft - 1
  /\ IF cron.searchEnabled
     THEN /\ cron' = cron
          /\ Step(Cmd("searchon", <<>>, NULL), <<Msg("already_running", 0)>>, <<>>)
     ELSE /\ cron' = [cron EXCEPT !.searchTask = TRUE, !.searchEnabled = TRUE]
          /\ Step(Cmd("searchon", <<>>, NULL), <<Msg("search_started", 0)>>, <<>>)
  /\ UNCHANGED <<rows, replied, sq, tc, last_tweet_id, poll, srch, h, pubcount,
                 corpus, old, drafts, bip, sched, follow_backs, fb, flt, now, runsLeft>>

\* stopSearch clearing the flag and leaving the scheduled task running
StopSearch_FlagOnly ==
  /\ cmdsLeft > 0
  /\ cmdsLeft' = cmdsLeft - 1
  /\ IF ~cron.searchEnabled
     THEN /\ cron' = cron
          /\ Step(Cmd("searchoff", <<>>, NULL), <<Msg("already_stopped", 0)>>, <<>>)
     ELSE /\ cron' = [cron EXCEPT !.searchEnabled = FALSE]
          /\ Step(Cmd("searchoff", <<>>, NULL), <<Msg("search_stopped", 0)>>, <<>>)
  /\ UNCHANGED <<rows, replied, sq, tc, last_tweet_id, poll, srch, h, pubcount,
                 corpus, old, drafts, bip, sched, follow_backs, fb, flt, now, runsLeft>>

\* "/searchoff": stopSearch() and its answer
StopSearch ==
  /\ cmdsLeft > 0
  /\ cmdsLeft' = cmdsLeft - 1
  /\ IF ~cron.searchEnabled
     THEN /\ cron' = cron
          /\ Step(Cmd("searchoff", <<>>, NULL), <<Msg("already_stopped", 0)>>, <<>>)
     ELSE /\ cron' = [cron EXCEPT !.searchTask = FALSE, !.searchEnabled = FALSE]
          /\ Step(Cmd("searchoff", <<>>, NULL), <<Msg("search_stopped", 0)>>, <<>>)
  /\ UNCHANGED <<rows, replied, sq, tc, last_tweet_id, poll, srch, h, pubcount,
                 corpus, old, drafts, bip, sched, follow_backs, fb, flt, now, runsLeft>>

\* an interval of the polling schedule elapses: the callback calls pollAccounts()
PollInterval ==
  /\ runsLeft > 0
  /\ runsLeft' = runsLeft - 1
  /\ \A r \in 1..MaxPolls : poll[r].pc = "idle"
  /\ IF TaskFires(cron.pollTask)
     THEN pollAccountsCall(1)
     ELSE poll' = poll
  /\ Step(Timer("poll_interval"), <<>>, <<>>)
  /\ UNCHANGED <<rows, replied, sq, tc, last_tweet_id, srch, h, pubcount,
                 corpus, old, drafts, bip, sched, follow_backs, fb, cron, flt, now, cmdsLeft>>

\* an interval of the search schedule elapses: the callback runs pollSearches() if
\* searchEnabled, and checkFeedback() after it
SearchInterval ==
  /\ runsLeft > 0
  /\ runsLeft' = runsLeft - 1
  /\ srch.pc = "idle" /\ fb.pc = "idle" /\ cron.cb = "idle"
  /\ IF TaskFires(cron.searchTask)
     THEN IF cron.searchEnabled
          THEN /\ pollSearchesCall
               /\ cron' = [cron EXCEPT !.cb = "awaitSearches"]
               /\ fb' = fb
          ELSE /\ checkFeedbackCall(0)
               /\ UNCHANGED <<srch, cron>>
     ELSE UNCHANGED <<srch, cron, fb>>
  /\ Step(Timer("search_interval"), <<>>, <<>>)
  /\ UNCHANGED <<rows, replied, sq, tc, last_tweet_id, poll, h, pubcount,
                 corpus, old, drafts, bip, sched, follow_backs, flt, now, cmdsLeft>>

\* pollSearches has settled: the callback goes on to checkFeedback()
SearchCallbackFeedback ==
  /\ cron.cb = "awaitSearches"
  /\ srch.pc = "idle"
  /\ fb.pc = "idle"
  /\ checkFeedbackCall(0)
  /\ cron' = [cron EXCEPT !.cb = "idle"]
  /\ Emit(<<>>, <<>>)
  /\ UNCHANGED <<rows, replied, sq, tc, last_tweet_id, poll, srch, h, pubcount,
                 corpus, old, drafts, bip, sched, follow_backs, flt, now, cmdsLeft, runsLeft>>

\* the bot some time after startup: one reply published and not yet checked
InitCron ==
  /\ Fresh
  /\ pubcount = [t \in TweetIds |-> IF t = MaxTweet THEN 1 ELSE 0]
  /\ now = StartHour
  /\ rows = <<[tweet_id |-> MaxTweet, tweet_author |-> AuthorOf(MaxTweet),
               generated_reply |-> "g1", final_reply |-> "g1", status |-> "posted",
               created_at |-> StartHour - 2, resolved_at |-> StartHour - 2,
               source_type |-> "account", source_query |-> NULL]>>
  /\ replied = <<[username |-> AuthorOf(MaxTweet), tweet_id |-> MaxTweet, reply_id |-> 1,
                  source_query |-> NULL, reply_tweet_id |-> 1001,
                  followed_back |-> FALSE, got_reply_back |-> FALSE,
                  checked_follow_back_at |-> NoTime, created_at |-> StartHour - 2]>>
  /\ srch = SrchIdle
  /\ old = {}
  /\ fb = FbIdle
  /\ drafts = DraftsInit
  /\ bip = BipInit
  /\ sched = SchedInit
  /\ follow_backs = [q \in Queries |-> 0]
  /\ cron = CronInit
  /\ flt = NoFlt
  /\ cmdsLeft = MaxCronCmds
  /\ runsLeft = MaxCronTicks

NextCron ==
  \/ StartPolling
  \/ StopPolling
  \/ StartSearch
  \/ StopSearch
  \/ PollInterval
  \/ SearchInterval
  \/ SearchCallbackFeedback
  \/ \E r \in 1..MaxPolls : PollFetchReturn(r)
  \/ \E r \in 1..MaxPolls : PollGenReturn(r)
  \/ \E r \in 1..MaxPolls : PollSendReturn(r)
  \/ SearchFetchReturn
  \/ SearchBatchReturn
  \/ FeedbackFollowersReturn
  \/ FeedbackEngagementReturn

SpecCron == InitCron /\ [][NextCron]_vars

(* ------------- account polling and /fetch on posts of any age --------- *)
\* the tracked account polled on schedule and fetched on demand, some of the
\* posts (the oldest ones) created more than an hour before
InitWindow ==
  /\ Fresh
  /\ rows = <<>>
  /\ replied = <<>>
  /\ srch = SrchIdle
  /\ pubcount = [t \in TweetIds |-> 0]
  /\ \E n \in 0..MaxTweet : old = 1..n
  /\ fb = FbIdle
  /\ drafts = DraftsInit
  /\ bip = BipInit
  /\ sched = SchedInit
  /\ follow_backs = [q \in Queries |-> 0]
  /\ cron = CronInit
  /\ flt = NoFlt
  /\ now = 1
  /\ cmdsLeft = MaxCmds
  /\ runsLeft = MaxDiscRuns

NextWindow ==
  \/ \E r \in 1..MaxPolls : PollStart(r)
  \/ \E r \in 1..MaxPolls : PollFetchReturn(r)
  \/ \E r \in 1..MaxPolls : PollGenReturn(r)
  \/ \E r \in 1..MaxPolls : PollSendReturn(r)
  \/ \E k \in Handlers : Fetch(k)
  \/ \E k \in Handlers : FetchTweetsReturn(k)
  \/ \E k \in Handlers : FetchGenReturn(k)

SpecWindow == InitWindow /\ [][NextWindow]_vars

(* ------------------- pollAccounts runs that overlap ------------------- *)
MaxOverlap == 2     \* pollAccounts runs in flight at once in SpecOverlap
MaxOverlapRuns == 3 \* pollAccounts runs started in a behaviour of SpecOverlap

\* the startup poll, the schedule, /poll and POST /api/poll each call
\* pollAccounts() without looking for a run in flight; the tracked account has
\* an early post and one it publishes later
InitOverlap ==
  /\ rows = <<>>
  /\ replied = <<>>
  /\ sq = [q \in Queries |-> 0]
  /\ tc = [c \in Communities |-> 0]
  /\ last_tweet_id = [a \in Accounts |-> 0]
  /\ poll = [r \in 1..MaxOverlap |-> PollIdle]
  /\ srch = SrchIdle
  /\ h = [k \in Handlers |-> Idle]
  /\ pubcount = [t \in TweetIds |-> 0]
  /\ called = <<>>
  /\ sent = <<>>
  /\ recv = NoCmd
  /\ resp = NoResp
  /\ corpus = TimelineIds
  /\ old = {}
  /\ fb = FbIdle
  /\ drafts = DraftsInit
  /\ bip = BipInit
  /\ sched = SchedInit
  /\ follow_backs = [q \in Queries |-> 0]
  /\ cron = CronInit
  /\ flt = NoFlt
  /\ now = 1
  /\ cmdsLeft = 0
  /\ runsLeft = MaxOverlapRuns

NextOverlap ==
  \/ \E r \in 1..MaxOverlap : PollStart(r)
  \/ \E r \in 1..MaxOverlap : PollFetchReturn(r)
  \/ \E r \in 1..MaxOverlap : PollGenReturn(r)
  \/ \E r \in 1..MaxOverlap : PollSendReturn(r)

SpecOverlap == InitOverlap /\ [][NextOverlap]_vars

(* --------------- checkFeedback on a reply found by a search ----------- *)
\* as InitFeedback, the second reply being to a post the query "q1" found
InitFollowBacks ==
  /\ sq = [q \in Queries |-> 1]
  /\ tc = [c \in Communities |-> 0]
  /\ last_tweet_id = [a \in Accounts |-> 0]
  /\ poll = [r \in 1..MaxPolls |-> PollIdle]
  /\ h = [k \in Handlers |-> Idle]
  /\ called = <<>>
  /\ sent = <<>>
  /\ recv = NoCmd
  /\ resp = NoResp
  /\ corpus = TweetIds
  /\ pubcount = [t \in TweetIds |-> 1]
  /\ now = StartHour
  /\ rows = [j \in 1..MaxTweet |->
               [tweet_id |-> j, tweet_author |-> AuthorOf(j), generated_reply |-> "g1",
                final_reply |-> "g1", status |-> "posted", created_at |-> StartHour - 2,
                resolved_at |-> StartHour - 2,
                source_type |-> IF j = MaxTweet THEN "search" ELSE "account",
                source_query |-> IF j = MaxTweet THEN "q1" ELSE NULL]]
  /\ replied = [j \in 1..MaxTweet |->
                  [username |-> AuthorOf(j), tweet_id |-> j, reply_id |-> j,
                   source_query |-> IF j = MaxTweet THEN "q1" ELSE NULL,
                   reply_tweet_id |-> 1000 + j,
                   followed_back |-> FALSE, got_reply_back |-> FALSE,
                   checked_follow_back_at |-> NoTime, created_at |-> StartHour - 2]]
  /\ srch = SrchIdle
  /\ old = {}
  /\ fb = FbIdle
  /\ drafts = DraftsInit
  /\ bip = BipInit
  /\ sched = SchedInit
  /\ follow_backs = [q \in Queries |-> 0]
  /\ cron = CronInit
  /\ flt = NoFlt
  /\ cmdsLeft = MaxFbCmds
  /\ runsLeft = 0

SpecFollowBacks == InitFollowBacks /\ [][NextFeedback]_vars

(* ------------------- messages from chats other than CHAT_ID ----------- *)
CHAT_ID == "operator"                 \* config.telegram.chatId
OtherChats == {"stranger"}            \* chats that are not the operator's
ForeignTexts == {"2 all", "/searchoff", "hello"}

\* the first line of the handlers left out: no chat is turned away
NotOperatorChat_None(chat) == FALSE

\* if (String(msg.chat.id) !== CHAT_ID) return;
NotOperatorChat(chat) == chat # CHAT_ID

\* a message from another chat: every handler whose pattern matches returns
\* on its first line; past that line the handler of the text would run
ForeignMessage ==
  /\ cmdsLeft > 0
  /\ cmdsLeft' = cmdsLeft - 1
  /\ \E chat \in OtherChats, text \in ForeignTexts :
       /\ recv' = Cmd("foreign", <<>>, text)
       /\ resp' = NoResp
       /\ called' = <<>>
       /\ IF NotOperatorChat(chat)
          THEN /\ sent' = <<>>
               /\ UNCHANGED <<rows, cron>>
          ELSE IF text = "2 all"
               THEN /\ rows' = RejectEach(rows, AllPending(rows))
                    /\ sent' = <<Msg(IF AllPending(rows) = {} THEN "none_pending"
                                     ELSE "rejected_all", Cardinality(AllPending(rows)))>>
                    /\ UNCHANGED cron
               ELSE IF text = "/searchoff"
                    THEN /\ cron' = [cron EXCEPT !.searchTask = FALSE, !.searchEnabled = FALSE]
                         /\ sent' = <<Msg("search_stopped", 0)>>
                         /\ UNCHANGED rows
                    ELSE /\ sent' = <<Msg("not_understood", 0)>>
                         /\ UNCHANGED <<rows, cron>>
  /\ UNCHANGED <<replied, sq, tc, last_tweet_id, poll, srch, h, pubcount,
                 corpus, old, drafts, bip, sched, follow_backs, fb, flt, now, runsLeft>>

\* a polling run and the operator's approvals, with messages of a stranger
\* arriving in between
InitForeign ==
  /\ Fresh
  /\ rows = <<>>
  /\ replied = <<>>
  /\ srch = SrchIdle
  /\ pubcount = [t \in TweetIds |-> 0]
  /\ old = {}
  /\ fb = FbIdle
  /\ drafts = DraftsInit
  /\ bip = BipInit
  /\ sched = SchedInit
  /\ follow_backs = [q \in Queries |-> 0]
  /\ cron = CronInit
  /\ flt = NoFlt
  /\ now = 1
  /\ cmdsLeft = MaxCmds
  /\ runsLeft = MaxRuns

NextForeign ==
  \/ ForeignMessage
  \/ \E r \in 1..MaxPolls : PollStart(r)
  \/ \E r \in 1..MaxPolls : PollFetchReturn(r)
  \/ \E r \in 1..MaxPolls : PollGenReturn(r)
  \/ \E r \in 1..MaxPolls : PollSendReturn(r)
  \/ \E k \in Handlers : Approve(k)
  \/ \E k \in Handlers : ApproveLoop(k)
  \/ \E k \in Handlers : ApprovePublishReturn(k)

SpecForeign == InitForeign /\ [][NextForeign]_vars

(* ------------------ the every-minute scheduled-posts task ------------- *)
\* SELECT * FROM scheduled_posts WHERE status = 'scheduled' AND scheduled_at <= ?
RECURSIVE DuePosts(_, _)
DuePosts(status, p) ==
  IF p > Len(status) THEN <<>>
  ELSE (IF status[p] = "scheduled" THEN <<p>> ELSE <<>>) \o DuePosts(status, p + 1)

\* cron.schedule('* * * * *', async () => ...): node-cron runs the callback at every
\* minute, whether or not the promise of an earlier run has settled.
\* a minute elapses: the SELECT, and the first await postTweet if a post is due
SchedTick(r) ==
  /\ runsLeft > 0
  /\ runsLeft' = runsLeft - 1
  /\ sched.run[r].pc = "idle"
  /\ \A o \in 1..(r - 1) : sched.run[o].pc # "idle"
  /\ LET duePosts == DuePosts(sched.status, 1) IN
     sched' = IF duePosts = <<>> THEN sched
              ELSE [sched EXCEPT !.run[r] = [pc |-> "awaitPost", duePosts |-> duePosts, i |-> 1]]
  /\ Step(Timer("minute"), <<>>, <<>>)
  /\ UNCHANGED <<rows, replied, sq, tc, last_tweet_id, poll, srch, h, pubcount,
                 corpus, old, drafts, bip, follow_backs, fb, cron, flt, now, cmdsLeft>>

\* postTweet settles: true when the tweet was created, false otherwise; then
\* the UPDATE on success and the next post of the run's list
SchedPostReturn(r) ==
  /\ sched.run[r].pc = "awaitPost"
  /\ \E success \in BOOLEAN :
       LET run == sched.run[r]
           post == run.duePosts[run.i]
           next == IF run.i < Len(run.duePosts) THEN [run EXCEPT !.i = run.i + 1]
                   ELSE SchedIdle
       IN /\ sched' = IF success
                      THEN [sched EXCEPT !.status[post] = "posted",
                                         !.published[post] = @ + 1,
                                         !.run[r] = next]
                      ELSE [sched EXCEPT !.run[r] = next]
          /\ Settle(Resp("postTweet", IF success THEN "ok" ELSE "error", {post}, {}), <<>>, <<>>)
  /\ UNCHANGED <<rows, replied, sq, tc, last_tweet_id, poll, srch, h, pubcount,
                 corpus, old, drafts, bip, follow_backs, fb, cron, flt, now, cmdsLeft, runsLeft>>

InitSched ==
  /\ Fresh
  /\ rows = <<>>
  /\ replied = <<>>
  /\ srch = SrchIdle
  /\ pubcount = [t \in TweetIds |-> 0]
  /\ old = {}
  /\ fb = FbIdle
  /\ drafts = DraftsInit
  /\ bip = BipInit
  /\ follow_backs = [q \in Queries |-> 0]
  /\ sched = SchedInit
  /\ cron = CronInit
  /\ flt = NoFlt
  /\ now = 1
  /\ cmdsLeft = 0
  /\ runsLeft = MaxSchedTicks

NextSched ==
  \/ \E r \in 1..MaxSchedRuns : SchedTick(r)
  \/ \E r \in 1..MaxSchedRuns : SchedPostReturn(r)

SpecSched == InitSched /\ [][NextSched]_vars

(* -------------------- the build-in-public conversation ---------------- *)
BipTexts == {"a", "no", "shipped the importer"}

\* the first call slot that is free
BipFree(c) ==
  /\ bip.call[c].pc = "idle"
  /\ \A o \in 1..(c - 1) : bip.call[o].pc # "idle"

BipUnchanged ==
  UNCHANGED <<rows, replied, sq, tc, last_tweet_id, poll, srch, h, pubcount,
              corpus, old, drafts, follow_backs, sched, fb, cron, flt, now, runsLeft>>

\* /bip: startBipFlow
BipCommand ==
  /\ cmdsLeft > 0
  /\ cmdsLeft' = cmdsLeft - 1
  /\ bip' = [bip EXCEPT !.phase = "collecting", !.step = 0]
  /\ Step(Cmd("bip", <<>>, NULL), <<Msg("prompts", bip.day_number)>>, <<>>)
  /\ BipUnchanged

\* bot.on('message') for a text that is no command, up to the first await of
\* the function it calls
BipMessage(c) ==
  /\ cmdsLeft > 0
  /\ cmdsLeft' = cmdsLeft - 1
  /\ \E text \in BipTexts :
       /\ recv' = Cmd("text", <<>>, text)
       /\ resp' = NoResp
       /\ called' = <<>>
       /\ CASE bip.phase = "collecting" /\ bip.step + 1 < 4 ->
                 \* the answer is stored and the next prompt sent
                 /\ c = 1
                 /\ bip' = [bip EXCEPT !.step = @ + 1]
                 /\ sent' = <<Msg("prompt", bip.step + 1)>>
            [] bip.phase = "collecting" /\ bip.step + 1 >= 4 ->
                 \* handleCollectedAnswers up to `await send('Generating post options...')`
                 /\ BipFree(c)
                 /\ bip' = [bip EXCEPT
                       !.step = @ + 1,
                       !.completed = IF bip.step = 3 THEN @ + 1 ELSE @,
                       !.call[c] = [pc |-> "awaitSend", dayNumber |-> bip.day_number,
                                    postId |-> 0]]
                 /\ sent' = <<Msg("generating", 0)>>
            [] bip.phase = "approving" /\ text = "no" ->
                 \* handleApproval: the row is rejected
                 /\ c = 1
                 /\ bip' = [bip EXCEPT !.status[bip.postId] = "rejected", !.phase = "idle"]
                 /\ sent' = <<Msg("rejected", bip.postId)>>
            [] bip.phase = "approving" /\ text # "no" ->
                 \* handleApproval up to `await postTweet(tweetText)`
                 /\ BipFree(c)
                 /\ bip' = [bip EXCEPT !.call[c] = [pc |-> "awaitPost", dayNumber |-> 0,
                                                    postId |-> bip.postId]]
                 /\ sent' = <<>>
            [] bip.phase = "idle" ->
                 /\ c = 1
                 /\ bip' = bip
                 /\ sent' = <<>>
  /\ BipUnchanged

\* handleCollectedAnswers: the notice is sent, generateBipPost is called
BipGenerateCall(c) ==
  /\ bip.call[c].pc = "awaitSend"
  /\ bip' = [bip EXCEPT !.call[c].pc = "awaitGenerate", !.generated = @ + 1]
  /\ Emit(<<>>, <<>>)
  /\ UNCHANGED cmdsLeft
  /\ BipUnchanged

\* generateBipPost settles: the INSERT into bip_posts and state = approving, or
\* the catch of the message handler
BipGenerateReturn(c) ==
  /\ bip.call[c].pc = "awaitGenerate"
  /\ \E ok \in BOOLEAN :
       IF ok
       THEN LET postId == Len(bip.status) + 1 IN
            /\ bip' = [bip EXCEPT !.status = Append(@, "pending"),
                                  !.phase = "approving", !.postId = postId,
                                  !.call[c] = BipCallIdle]
            /\ Settle(Resp("generateBipPost", "ok", {}, {}), <<Msg("options", postId)>>, <<>>)
       ELSE /\ bip' = [bip EXCEPT !.phase = "idle", !.call[c] = BipCallIdle]
            /\ Settle(Resp("generateBipPost", "throw", {}, {}), <<Msg("error", 0)>>, <<>>)
  /\ UNCHANGED cmdsLeft
  /\ BipUnchanged

\* postTweet settles: with a tweet id the row is marked posted and day_number
\* incremented; then `await send(...)`
BipPostReturn(c) ==
  /\ bip.call[c].pc = "awaitPost"
  /\ \E tweetId \in BOOLEAN :
       IF tweetId
       THEN /\ bip' = [bip EXCEPT !.status[bip.call[c].postId] = "posted",
                                  !.day_number = @ + 1,
                                  !.tweets = @ + 1,
                                  !.call[c].pc = "awaitNotice"]
            /\ Settle(Resp("postTweet", "ok", {bip.call[c].postId}, {}),
                      <<Msg("posted", bip.call[c].postId)>>, <<>>)
       ELSE /\ bip' = [bip EXCEPT !.call[c].pc = "awaitNotice"]
            /\ Settle(Resp("postTweet", "error", {bip.call[c].postId}, {}),
                      <<Msg("failed", bip.call[c].postId)>>, <<>>)
  /\ UNCHANGED cmdsLeft
  /\ BipUnchanged

\* handleApproval: the notice is sent, state = { phase: 'idle' }
BipApprovalEnd(c) ==
  /\ bip.call[c].pc = "awaitNotice"
  /\ bip' = [bip EXCEPT !.phase = "idle", !.call[c] = BipCallIdle]
  /\ Emit(<<>>, <<>>)
  /\ UNCHANGED cmdsLeft
  /\ BipUnchanged

InitBip ==
  /\ Fresh
  /\ rows = <<>>
  /\ replied = <<>>
  /\ srch = SrchIdle
  /\ pubcount = [t \in TweetIds |-> 0]
  /\ old = {}
  /\ fb = FbIdle
  /\ drafts = DraftsInit
  /\ bip = BipInit
  /\ follow_backs = [q \in Queries |-> 0]
  /\ sched = SchedInit
  /\ cron = CronInit
  /\ flt = NoFlt
  /\ now = 1
  /\ cmdsLeft = MaxBipMsgs
  /\ runsLeft = 0

NextBip ==
  \/ BipCommand
  \/ \E c \in 1..MaxBipCalls : BipMessage(c)
  \/ \E c \in 1..MaxBipCalls : BipGenerateCall(c)
  \/ \E c \in 1..MaxBipCalls : BipGenerateReturn(c)
  \/ \E c \in 1..MaxBipCalls : BipPostReturn(c)
  \/ \E c \in 1..MaxBipCalls : BipApprovalEnd(c)

SpecBip == InitBip /\ [][NextBip]_vars

(* ------------------------- the content bot's drafts ------------------- *)
DefaultLimit == 10
EditLimit == 100

\* the first n elements of a sequence
Limit(s, n) == SubSeq(s, 1, IF Len(s) < n THEN Len(s) ELSE n)

\* SELECT id ... FROM content_drafts ORDER BY id DESC LIMIT ?   (the status filter left out)
getPendingDrafts_AnyStatus(status, limit) ==
  Limit([j \in 1..Len(status) |-> Len(status) + 1 - j], limit)

\* SELECT id ... FROM content_drafts WHERE status = 'pending' ORDER BY id DESC LIMIT ?
RECURSIVE PendingDesc(_, _)
PendingDesc(status, d) ==
  IF d < 1 THEN <<>>
  ELSE (IF status[d] = "pending" THEN <<d>> ELSE <<>>) \o PendingDesc(status, d - 1)

getPendingDrafts(status, limit) == Limit(PendingDesc(status, Len(status)), limit)

\* drafts.find((d) => d.id === id)
DraftFound(found, id) == \E j \in 1..Len(found) : found[j] = id

\* UPDATE content_drafts SET status = ?[, content = ?] WHERE id = ?
updateDraftStatus(ds, id, status, finalContent) ==
  IF finalContent # NULL
  THEN [ds EXCEPT !.status[id] = status, !.content[id] = finalContent]
  ELSE [ds EXCEPT !.status[id] = status]

DraftFree(c) ==
  /\ drafts.call[c].pc = "idle"
  /\ \A o \in 1..(c - 1) : drafts.call[o].pc # "idle"

DraftsUnchanged ==
  UNCHANGED <<rows, replied, sq, tc, last_tweet_id, poll, srch, h, pubcount,
              corpus, old, bip, follow_backs, sched, fb, cron, flt, now, runsLeft>>

\* "1" / "1 #ID": approve, up to the first await
DraftApprove(c) ==
  /\ cmdsLeft > 0
  /\ cmdsLeft' = cmdsLeft - 1
  /\ \E arg \in 0..MaxDrafts :
       LET found == getPendingDrafts(drafts.status, DefaultLimit)
           id == IF arg > 0 THEN arg ELSE found[1]
       IN /\ recv' = Cmd("approve", IF arg > 0 THEN <<arg>> ELSE <<>>, NULL)
          /\ resp' = NoResp
          /\ called' = <<>>
          /\ IF found = <<>>
             THEN /\ c = 1
                  /\ drafts' = drafts
                  /\ sent' = <<Msg("noPending", 0)>>
             ELSE IF ~DraftFound(found, id)
             THEN /\ c = 1
                  /\ drafts' = drafts
                  /\ sent' = <<Msg("notPending", id)>>
             ELSE /\ DraftFree(c)
                  /\ drafts' = [updateDraftStatus(drafts, id, "approved", NULL) EXCEPT
                                  !.call[c] = [pc |-> "awaitSend", id |-> id,
                                               text |-> drafts.content[id], tweetId |-> FALSE]]
                  /\ sent' = <<Msg("approved", id)>>
  /\ DraftsUnchanged

\* "#ID text": edit, up to the first await
DraftEdit(c) ==
  /\ cmdsLeft > 0
  /\ cmdsLeft' = cmdsLeft - 1
  /\ \E id \in 1..MaxDrafts :
       LET found == getPendingDrafts(drafts.status, EditLimit)
           newText == "edited"
       IN /\ recv' = Cmd("edit", <<id>>, newText)
          /\ resp' = NoResp
          /\ called' = <<>>
          /\ IF ~DraftFound(found, id)
             THEN /\ c = 1
                  /\ drafts' = drafts
                  /\ sent' = <<Msg("notPending", id)>>
             ELSE /\ DraftFree(c)
                  /\ drafts' = [updateDraftStatus(drafts, id, "edited", newText) EXCEPT
                                  !.call[c] = [pc |-> "awaitSend", id |-> id,
                                               text |-> newText, tweetId |-> FALSE]]
                  /\ sent' = <<Msg("updated", id)>>
  /\ DraftsUnchanged

\* "2" / "2 #ID": reject
DraftReject ==
  /\ cmdsLeft > 0
  /\ cmdsLeft' = cmdsLeft - 1
  /\ \E arg \in 0..MaxDrafts :
       LET found == getPendingDrafts(drafts.status, DefaultLimit)
           id == IF arg > 0 THEN arg ELSE found[1]
       IN /\ recv' = Cmd("reject", IF arg > 0 THEN <<arg>> ELSE <<>>, NULL)
          /\ resp' = NoResp
          /\ called' = <<>>
          /\ IF found = <<>>
             THEN /\ drafts' = drafts
                  /\ sent' = <<Msg("noPending", 0)>>
             ELSE IF ~DraftFound(found, id)
             THEN /\ drafts' = drafts
                  /\ sent' = <<Msg("notPending", id)>>
             ELSE /\ drafts' = updateDraftStatus(drafts, id, "rejected", NULL)
                  /\ sent' = <<Msg("rejected", id)>>
  /\ DraftsUnchanged

\* the "Posting to Twitter..." notice is sent: postTweet is called
DraftPostCall(c) ==
  /\ drafts.call[c].pc = "awaitSend"
  /\ drafts' = [drafts EXCEPT !.call[c].pc = "awaitPost",
                              !.posts[drafts.call[c].id] = @ + 1]
  /\ Emit(<<>>, <<>>)
  /\ UNCHANGED cmdsLeft
  /\ DraftsUnchanged

\* postTweet settles: a tweet id, null, or the request throws
DraftPostReturn(c) ==
  /\ drafts.call[c].pc = "awaitPost"
  /\ \E outcome \in {"id", "null", "throw"} :
       LET id == drafts.call[c].id IN
       /\ drafts' = IF outcome = "id"
                    THEN [drafts EXCEPT !.call[c].pc = "awaitNotice",
                                        !.call[c].tweetId = TRUE,
                                        !.tweetIds[id] = @ + 1]
                    ELSE [drafts EXCEPT !.call[c].pc = "awaitNotice"]
       /\ Settle(Resp("postTweet", outcome, {id}, {}),
                 <<Msg(IF outcome = "id" THEN "posted" ELSE "notPosted", id)>>, <<>>)
  /\ UNCHANGED cmdsLeft
  /\ DraftsUnchanged

\* the notice after postTweet is sent: updateDraftStatus(id, 'posted') if a tweet
\* id came back, and the handler ends
DraftEnd(c) ==
  /\ drafts.call[c].pc = "awaitNotice"
  /\ drafts' = [(IF drafts.call[c].tweetId
                 THEN updateDraftStatus(drafts, drafts.call[c].id, "posted", NULL)
                 ELSE drafts) EXCEPT !.call[c] = DraftCallIdle]
  /\ Emit(<<>>, <<>>)
  /\ UNCHANGED cmdsLeft
  /\ DraftsUnchanged

InitDrafts ==
  /\ Fresh
  /\ rows = <<>>
  /\ replied = <<>>
  /\ srch = SrchIdle
  /\ pubcount = [t \in TweetIds |-> 0]
  /\ old = {}
  /\ fb = FbIdle
  /\ drafts = DraftsInit
  /\ bip = BipInit
  /\ follow_backs = [q \in Queries |-> 0]
  /\ sched = SchedInit
  /\ cron = CronInit
  /\ flt = NoFlt
  /\ now = 1
  /\ cmdsLeft = MaxDraftCmds
  /\ runsLeft = 0

NextDrafts ==
  \/ \E c \in 1..MaxDraftCalls : DraftApprove(c)
  \/ \E c \in 1..MaxDraftCalls : DraftEdit(c)
  \/ DraftReject
  \/ \E c \in 1..MaxDraftCalls : DraftPostCall(c)
  \/ \E c \in 1..MaxDraftCalls : DraftPostReturn(c)
  \/ \E c \in 1..MaxDraftCalls : DraftEnd(c)

SpecDrafts == InitDrafts /\ [][NextDrafts]_vars

(* ====================================================================== *)
(*                               properties                               *)
(* ====================================================================== *)
NotPending(r, id) == ~(id \in 1..Len(r) /\ r[id].status = "pending")

\* C1: whatever discovery operations ran and however they interleaved,
\* pending_replies holds at most one row per source tweet id.
C1_OneRowPerTweet ==
  \A i, j \in 1..Len(rows) : rows[i].tweet_id = rows[j].tweet_id => i = j

\* pollSearches is about to insert a candidate for which another discovery
\* operation stored a row after the candidate passed the existence check
C1_SurfacedTwice ==
  /\ srch.pc = "awaitBatch"
  /\ \E j \in srch.from..Len(srch.cands) :
       \E i \in 1..Len(rows) : /\ rows[i].tweet_id = srch.cands[j].tweet
                               /\ rows[i].source_type = "account"

\* C2: every postReply call is made by a handler of an approve or edit command
\* for a row it found pending, the row still being pending when the call leaves;
\* steps of discovery, generation, regeneration and reject make no call.
C2_PublishOnlyForPendingOnCommand ==
  \A j \in 1..Len(called) :
    LET c == called[j] IN
    /\ c.by \in {"approve", "edit"}
    /\ c.found = "pending"
    /\ c.id \in 1..Len(rows)
    /\ rows[c.id].status = "pending"
    /\ rows[c.id].tweet_id = c.tweet
    /\ \E k \in Handlers : /\ h[k].pc = "awaitPublish"
                           /\ h[k].kind = c.by
                           /\ h[k].snap.id = c.id

\* an approve command has just sent a pending row's reply to the publisher
C2_ApproveCalled ==
  \E j \in 1..Len(called) : called[j].by = "approve" /\ rows[called[j].id].status = "pending"

\* C3: of two resolution commands for the same pending row handled with
\* overlapping execution at most one takes effect: a source post is published
\* at most once.
C3_PublishedAtMostOnce ==
  \A t \in TweetIds : pubcount[t] <= 1

\* the step answers a lookup of `id` with the message `kind` and does nothing else
NoEffect(id, kind) ==
  /\ rows' = rows
  /\ replied' = replied
  /\ pubcount' = pubcount
  /\ sq' = sq
  /\ tc' = tc
  /\ called' = <<>>
  /\ sent' = <<Msg(kind, id)>>

C4_Step ==
  /\ \A k \in Handlers :
       (/\ h[k].pc = "loop"
        /\ h'[k] # h[k]
        /\ h[k].i <= Len(h[k].ids)
        /\ NotPending(rows, h[k].ids[h[k].i]))
       => NoEffect(h[k].ids[h[k].i], "not_found")
  /\ (recv'.kind \in {"approve", "reject"} /\ NotPending(rows, recv'.ids[1]))
       => NoEffect(recv'.ids[1], "not_found")
  /\ (recv'.kind = "edit" /\ NotPending(rows, recv'.ids[1]))
       => NoEffect(recv'.ids[1], "no_pending_with_id")

\* C4: a step of an approve, reject or edit command that looks up an id whose
\* row is not pending changes no row, calls the publisher for nothing and
\* answers with the not-found message; the second listing of an id in one
\* approve command is such a lookup.
C4_ResolvedIdIsNoOp == [][C4_Step]_vars

\* "1 #1 #1": the first listing was published, the second was answered not-found
C4_ListedTwice ==
  \E k \in Handlers :
    /\ h[k].kind = "approve"
    /\ Len(h[k].ids) = 2
    /\ h[k].ids[1] = h[k].ids[2]
    /\ h[k].i = 3
    /\ h[k].posted = 1
    /\ sent = <<Msg("not_found", h[k].ids[2])>>
    /\ rows[h[k].ids[2]].status = "posted"

\* C5: once a row's status is rejected or posted, no step changes its status,
\* final text or resolved time.
C5_TerminalRowsNeverChange ==
  [][\A id \in 1..Len(rows) :
       rows[id].status \in {"rejected", "posted"}
       => /\ rows'[id].status = rows[id].status
          /\ rows'[id].final_reply = rows[id].final_reply
          /\ rows'[id].resolved_at = rows[id].resolved_at]_vars

\* handler k's postReply settles in this step
PublishReturned(k) == h[k].pc = "awaitPublish" /\ h'[k] # h[k]

\* what the operator can be sent when postReply returned null
FailureReports(kind, id) ==
  {postReplyAlerts(res) \o <<Msg(kind, id)>> : res \in PublishOutcomes \ {"ok"}}

C6_Step ==
  \A k \in Handlers :
    (PublishReturned(k) /\ pubcount' = pubcount)
    => LET id == h[k].snap.id IN
       /\ rows' = rows
       /\ replied' = replied
       /\ sq' = sq
       /\ tc' = tc
       /\ sent' \in FailureReports(IF h[k].kind = "approve" THEN "failed_to_post"
                                   ELSE "failed_to_post_edited", id)
       /\ called' = <<>>
       /\ h'[k].pc # "awaitPublish"
       /\ rows[id].status = "pending"
          => /\ rows'[id].status = "pending"
             /\ rows'[id].final_reply = NULL
             /\ rows'[id].resolved_at = NoTime
             /\ SelectPending(rows', id).id = id

\* C6: the step in which a publish call of approve or edit fails writes nothing:
\* a pending row stays pending with final_reply and resolved_at null, no
\* RepliedAuthor row is added, no reply counter changes, the operator is sent
\* the failure message, no new publish call is made, and the row can still be
\* found by a later approve.
C6_PublishFailureKeepsRow == [][C6_Step]_vars

\* an approve failed for a row, and a later approve of the same id has just
\* sent the still-pending row to the publisher
C6_ApprovedAgainAfterFailure ==
  \E k, l \in Handlers :
    /\ k # l
    /\ h[k].kind = "approve"
    /\ h[k].failed = 1
    /\ h[l].kind = "approve"
    /\ h[l].pc = "awaitPublish"
    /\ h[l].snap.id = h[k].snap.id
    /\ called # <<>>
    /\ rows[h[k].snap.id].status = "pending"
    /\ rows[h[k].snap.id].final_reply = NULL
    /\ rows[h[k].snap.id].resolved_at = NoTime

C7_Step ==
  \A k \in Handlers :
    (PublishReturned(k) /\ h[k].kind = "approve" /\ pubcount' # pubcount)
    => LET p == h[k].snap IN
       /\ rows'[p.id].status = "posted"
       /\ rows'[p.id].final_reply = h[k].text
       /\ h[k].text = p.generated_reply
       /\ rows'[p.id].resolved_at = now
       /\ rows'[p.id].resolved_at # NoTime
       /\ \E j \in 1..Len(replied') :
            /\ replied'[j].username = p.tweet_author
            /\ replied'[j].tweet_id = p.tweet_id
            /\ replied'[j].reply_id = p.id
            /\ replied'[j].reply_tweet_id = NewReplyId

\* C7: when an approve of a pending row is published, the row becomes posted with
\* final_reply the text sent, resolved_at stamped, and a replied_authors row for
\* (author, source post) linked to the row and carrying the new reply's id exists.
C7_ApproveSuccessRecorded == [][C7_Step]_vars

C8_EditStep(status) ==
  \A k \in Handlers :
    (PublishReturned(k) /\ h[k].kind = "edit" /\ pubcount' # pubcount)
    => LET p == h[k].snap IN
       /\ rows'[p.id].status = status
       /\ rows'[p.id].final_reply = h[k].text
       /\ h[k].text \in EditTexts
       /\ rows'[p.id].final_reply # rows[p.id].generated_reply

Rejected(row) == [row EXCEPT !.status = "rejected", !.resolved_at = now]

\* exactly the pending rows among `listed` are rejected, nothing is published
RejectEffect(listed) ==
  /\ Len(rows') = Len(rows)
  /\ \A id \in 1..Len(rows) :
       /\ rows'[id] = IF id \in listed /\ rows[id].status = "pending"
                      THEN Rejected(rows[id]) ELSE rows[id]
       /\ rows'[id].status = "rejected" => rows'[id].resolved_at # NoTime
  /\ called' = <<>>
  /\ pubcount' = pubcount
  /\ replied' = replied

\* the ids a reject step goes through: from position i to where handler k stops
Listed(ids, i, k) ==
  {ids[j] : j \in i..(IF h'[k].pc = "idle" THEN Len(ids) ELSE h'[k].i - 1)}

C9_Step ==
  /\ recv'.kind = "reject_all" => RejectEffect(1..Len(rows))
  /\ recv'.kind = "reject"
     => \A k \in Handlers : FreeSlot(k) => RejectEffect(Listed(recv'.ids, 1, k))
  /\ \A k \in Handlers :
       (h[k].pc = "loop" /\ h[k].kind = "reject" /\ h'[k] # h[k])
       => RejectEffect(Listed(h[k].ids, h[k].i, k))

\* C9: "2 all" sets every pending row to rejected with a resolved time, calls the
\* publisher for nothing and leaves rows of every other status as they were; a
\* reject by ids does so for exactly the listed ids that are pending.
C9_RejectTouchesOnlyPending == [][C9_Step]_vars

\* "2 all" has just rejected a pending row while a posted row was left as it was
C9_RejectedAllButPosted ==
  /\ recv.kind = "reject_all"
  /\ \E i, j \in 1..Len(rows) :
       /\ rows[i].status = "rejected"
       /\ rows[i].resolved_at = now
       /\ rows[j].status = "posted"
       /\ rows[j].final_reply # NULL
  /\ called = <<>>

C10_Step ==
  \A k \in Handlers :
    (h[k].pc = "awaitGen" /\ h[k].kind = "regen" /\ h'[k] # h[k])
    => LET id == h[k].snap.id IN
       /\ Len(rows') = Len(rows)
       /\ \A j \in 1..Len(rows) : j # id => rows'[j] = rows[j]
       /\ rows'[id] = [rows[id] EXCEPT !.generated_reply = rows'[id].generated_reply]
       /\ sent' = <<Msg("regen_failed", id)>> => rows' = rows

\* C10: the step that ends a regeneration changes at most the generated_reply of
\* the target row: its source tweet id, status, final_reply and resolved_at and
\* every other row are unchanged, no row is added or removed, and when the
\* generator fails no row changes at all.
C10_RegenChangesOnlyGeneratedReply == [][C10_Step]_vars

\* a regeneration has just replaced the generated text of a row that was
\* published in the meantime: the final text is still the text published
C10_RegeneratedAfterPublish ==
  \E id \in 1..Len(rows) :
    /\ sent = <<Msg("regenerated", id)>>
    /\ rows[id].status = "posted"
    /\ rows[id].final_reply \in GenTexts
    /\ rows[id].generated_reply # rows[id].final_reply

\* C11: a /regen whose generator call overlaps a resolution of the same row
\* never rewrites the generated payload of a row that has left pending: for
\* every posted row final_reply equals generated_reply.
C11_PostedKeepsGeneratedReply ==
  \A id \in 1..Len(rows) :
    rows[id].status = "posted" => rows[id].final_reply = rows[id].generated_reply

\* C12: when a pollSearches cycle ends, a source post surfaced twice has left
\* exactly one row and has not aborted the cycle: the digest for the rows the
\* cycle queued is sent.
C12_DuplicateInsertIgnored ==
  [][(srch.pc = "awaitBatch" /\ srch'.pc = "idle")
     => /\ \A i, j \in 1..Len(rows') : rows'[i].tweet_id = rows'[j].tweet_id => i = j
        /\ (Len(rows') > Len(rows) \/ srch.digest # <<>>)
           => /\ sent' # <<>>
              /\ sent'[1].kind = "digest_header"
              /\ sent'[1].id = Len(srch.digest) + Len(rows') - Len(rows)]_vars

\* C13: a message from the operator chat that matches no recognised command
\* pattern, an unknown slash command and a known slash command without its
\* argument included, is answered with a "not understood" response and changes
\* no table and calls the publisher for nothing.
C13_UnrecognisedIsAnswered ==
  [][recv'.kind \in {"text", "slash"}
     => /\ Len(sent') = 1
        /\ sent'[1].kind \in {"not_understood", "specify_id"}
        /\ rows' = rows
        /\ replied' = replied
        /\ sq' = sq
        /\ tc' = tc
        /\ last_tweet_id' = last_tweet_id
        /\ called' = <<>>
        /\ pubcount' = pubcount]_vars

\* the messages a handler's command is known to have sent already: the /fetch
\* notice, and one at least for every listed id that was not posted / rejected
SaidBefore(hr) ==
  IF hr.kind = "fetch" THEN 1
  ELSE IF hr.kind = "approve" THEN (hr.i - 1) - hr.posted
  ELSE IF hr.kind = "reject" THEN (hr.i - 1) - hr.rejected
  ELSE 0

C14_Step ==
  /\ \A k \in Handlers :
       h'[k] # h[k]
       => /\ SaidBefore(h[k]) + Len(sent') <= 1
          /\ h'[k].pc = "idle" => SaidBefore(h[k]) + Len(sent') = 1
  /\ (recv'.kind # "none" /\ h' = h) => Len(sent') = 1

\* C14: every operator command is answered with exactly one message: a handler
\* never sends a second message for its command, and a command that ends has
\* sent one.
C14_ExactlyOneResponse == [][C14_Step]_vars

\* how many messages of a kind a step sent
Count(msgs, kind) == Cardinality({j \in 1..Len(msgs) : msgs[j].kind = kind})

C15_Step ==
  \A k \in Handlers :
    PublishReturned(k)
    => /\ resp'.res = "rate"
          => /\ Count(sent', "alert_rate") = 1
             /\ Count(sent', "alert_auth") = 0
             /\ rows' = rows
             /\ pubcount' = pubcount
       /\ resp'.res = "auth"
          => /\ Count(sent', "alert_auth") = 1
             /\ Count(sent', "alert_rate") = 0
             /\ rows' = rows
             /\ pubcount' = pubcount

\* C15: a publish call that fails with 429 sends exactly one rate-limit alert,
\* one that fails with 401 or 403 sends exactly one auth-failure alert, which is
\* another message than the rate-limit alert, and in both cases the step leaves
\* the row as it was (it is not marked posted).
C15_FailureAlerts == [][C15_Step]_vars

\* an approve has just failed on a rate limit: the alert was sent, the row is pending
C15_RateLimited ==
  \E k \in Handlers :
    /\ resp.res = "rate"
    /\ h[k].kind = "approve"
    /\ h[k].failed = 1
    /\ sent = <<Msg("alert_rate", 0), Msg("failed_to_post", h[k].snap.id)>>
    /\ rows[h[k].snap.id].status = "pending"

\* the replies counted over all the sources of a table
Total(c) == Sum(c, DOMAIN c)

C16_Step ==
  \A k \in Handlers :
    (PublishReturned(k) /\ pubcount' # pubcount)
    => LET p == h[k].snap IN
       /\ Total(sq') + Total(tc') = Total(sq) + Total(tc) + 1
       /\ p.source_type = "search"
          => sq' = [sq EXCEPT ![p.source_query] = @ + 1] /\ tc' = tc
       /\ p.source_type = "community"
          => tc' = [tc EXCEPT ![p.source_query] = @ + 1] /\ sq' = sq

\* C16: every successful publish of an approve or edit adds exactly one to the
\* reply counter of the source that produced the row, be it an account, a search
\* query or a community, and changes no other counter.
C16_OwnerCounterIncremented == [][C16_Step]_vars

C17_Step ==
  \A r \in 1..MaxPolls :
    (poll[r].pc \in {"awaitGen", "awaitSend"} /\ poll'[r] # poll[r])
    => LET account == poll[r].accts[poll[r].idx] IN
       \* at most one row, for the newest fetched post
       /\ Len(rows') <= Len(rows) + 1
       /\ Len(rows') = Len(rows) + 1
          => /\ poll[r].pc = "awaitGen"
             /\ rows'[Len(rows')].tweet_id = poll[r].newest
       \* the pass over the account ends with last_tweet_id at the newest fetched id
       /\ poll'[r].pc # "awaitSend"
          => last_tweet_id'[account.username] = poll[r].newest

\* C17: in a pollAccounts cycle at most one row is created per account, for the
\* newest fetched post, and once a post was fetched the pass over the account
\* ends with last_tweet_id set to the newest fetched id, whether or not a row
\* was queued.
C17_NewestOnlyAndIdAdvanced == [][C17_Step]_vars

C18_Step ==
  \* the list handed to generation holds at most MAX_CANDIDATES candidates
  /\ srch'.pc = "awaitBatch" => Len(srch'.cands) <= MAX_CANDIDATES
  \* a cycle starts with an empty list: nothing is carried over
  /\ (srch.pc = "idle" /\ srch'.pc # "idle") => (srch'.cands = <<>> /\ srch'.digest = <<>>)
  /\ srch'.pc = "idle" => srch'.cands = <<>>
  \* rows are written for candidates of the batch only, and counted in the digest
  /\ srch.pc = "awaitBatch"
     => LET hi == Min(srch.from + BATCH_SIZE - 1, Len(srch.cands)) IN
        /\ Len(rows') >= Len(rows)
        /\ Len(rows') - Len(rows) <= hi - srch.from + 1
        /\ \A j \in (Len(rows) + 1)..Len(rows') :
             \E c \in srch.from..hi : rows'[j].tweet_id = srch.cands[c].tweet
        /\ Len(srch.digest) <= srch.from - 1
        /\ srch'.pc = "awaitBatch"
           => Len(srch'.digest) = Len(srch.digest) + Len(rows') - Len(rows)
        /\ (srch'.pc = "idle" /\ sent' # <<>>)
           => /\ sent'[1].id = Len(srch.digest) + Len(rows') - Len(rows)
              /\ sent'[1].id <= MAX_CANDIDATES
  /\ srch.pc # "awaitBatch" => rows' = rows

\* C18: a pollSearches cycle hands at most 20 candidates to generation and
\* queues at most 20 rows; what phase 1 found beyond the first 20 is dropped,
\* neither stored nor carried over into the next cycle.
C18_AtMostTwentyCandidates == [][C18_Step]_vars

C18_OverflowDropped ==
  /\ srch.pc = "awaitBatch"
  /\ srch.from = 1
  /\ Len(srch.cands) = MAX_CANDIDATES
  /\ resp.page \ resp.stale # {}
  /\ rows = <<>>
  /\ \A j \in 1..Len(srch.cands) : srch.cands[j].sourceType # "community"

C18_LastBatch ==
  /\ srch.pc = "awaitBatch"
  /\ Len(srch.cands) = MAX_CANDIDATES
  /\ srch.from = MAX_CANDIDATES - BATCH_SIZE + 1

C19_Step ==
  \* generation starts only from the fetch of the last source
  /\ (srch'.pc = "awaitBatch" /\ srch.pc # "awaitBatch")
     => (srch.pc = "awaitSearch" /\ srch.src = Len(SourceList))
  /\ srch'.pc = "awaitBatch" => srch'.src = Len(SourceList)
  \* a fetch that settles with a source left goes on to the next one, failed or
  \* not, keeping what the earlier sources supplied
  /\ (srch.pc = "awaitSearch" /\ srch.src < Len(SourceList) /\ resp'.svc = "search")
     => /\ srch'.pc = "awaitSearch"
        /\ srch'.src = srch.src + 1
        /\ Len(srch'.cands) >= Len(srch.cands)
        /\ SubSeq(srch'.cands, 1, Len(srch.cands)) = srch.cands
        /\ resp'.res = "error" => srch'.cands = srch.cands

\* C19: no generation call of a pollSearches cycle starts before every active
\* query and community has been fetched and filtered, and a source whose fetch
\* fails does not keep the remaining sources from being fetched.
C19_GenerationAfterAllFetches == [][C19_Step]_vars

C19_FetchedAfterFailure ==
  /\ srch.pc = "awaitSearch"
  /\ srch.src = Len(SourceList)
  /\ srch.src > 1
  /\ resp.svc = "search"
  /\ resp.res = "error"

\* what the quality filter and the exclusion let through, on the post's attributes
C20_Accepted(t) ==
  /\ ~TweetAttrs(t).isReply
  /\ TweetAttrs(t).len >= 30
  /\ TweetAttrs(t).lenNoUrls >= 20
  /\ TweetAttrs(t).hashtags <= 3
  /\ ~TweetAttrs(t).spam
  /\ AuthorOf(t) \notin {"kyushithe", "KyushiThe", "KYUSHITHE"}
  /\ t # OkTweet

C20_Step ==
  \* candidates pushed when a fetch settles: fresh posts of the page that pass
  \* the filter, of another author, without a row at that time
  /\ resp'.svc = "search"
     => \A j \in (Len(srch.cands) + 1)..Len(srch'.cands) :
          LET t == srch'.cands[j].tweet IN
          /\ t \in resp'.page \ resp'.stale
          /\ C20_Accepted(t)
          /\ ~\E i \in 1..Len(rows) : rows[i].tweet_id = t
  /\ resp'.svc # "search" => (srch'.cands = srch.cands \/ srch'.cands = <<>>)
  \* generation is called for candidates only, and rows written for them only
  /\ \A j \in 1..Len(srch'.cands) : C20_Accepted(srch'.cands[j].tweet)
  /\ \A i \in 1..Len(rows') :
       rows'[i].source_type \in {"search", "community"} => C20_Accepted(rows'[i].tweet_id)

\* C20: search and community discovery calls generation only for posts that
\* passed the quality filter, are not by the excluded account (in any letter
\* case) and had no row when they were filtered; the two-character text "ok"
\* never reaches generation and never becomes a row.
C20_OnlyFilteredPostsGenerated == [][C20_Step]_vars

C20_OkRejected ==
  /\ resp.svc = "search"
  /\ {OkTweet, OwnTweet} \subseteq resp.page \ resp.stale
  /\ srch.pc = "awaitBatch"
  /\ \E j \in 1..Len(srch.cands) : srch.cands[j].tweet \in resp.page

\* C21: the quality filter is a function of the candidate's attributes alone: two
\* evaluations on the same candidate (same text, reply flag and creation time)
\* give the same result, whenever they are made.
C21_FilterIsDeterministic ==
  \A i, j \in 1..Len(flt.evals) : flt.evals[i].result = flt.evals[j].result

\* the posts of an account whose row waits with status 'new' (generation failed)
C22_Ungenerated(username) ==
  {rows[j].tweet_id : j \in {i \in 1..Len(rows) :
                               rows[i].status = "new" /\ rows[i].tweet_author = username}}

C22_Step ==
  \A r \in 1..MaxPolls :
    \* no second generation call in the cycle that saw the failure
    /\ (poll[r].pc = "awaitGen" /\ poll'[r] # poll[r]) => poll'[r].pc # "awaitGen"
    \* a later cycle, once the account's posts are fetched, calls generation for
    \* the post again
    /\ (poll[r].pc = "awaitFetch" /\ poll'[r] # poll[r]
        /\ C22_Ungenerated(poll[r].accts[poll[r].idx].username) # {})
       => /\ poll'[r].pc = "awaitGen"
          /\ poll'[r].tweet \in C22_Ungenerated(poll[r].accts[poll[r].idx].username)

\* C22: when generation fails for a post found by account polling it is not
\* retried within the same cycle, and a later scheduled poll cycle attempts
\* generation for that post again, so that the post can still become pending.
C22_GenerationRetriedNextCycle == [][C22_Step]_vars

C23_Step ==
  (fb.pc = "idle" /\ fb'.pc = "awaitFollowers")
  => \A n \in 1..Len(fb'.authors) :
       LET a == replied[fb'.authors[n].id] IN
       \/ a.checked_follow_back_at = NoTime
       \/ now - a.checked_follow_back_at >= 4

\* C23: the feedback cooldown: a run of checkFeedback never selects a
\* replied_authors row whose checked_follow_back_at was stamped less than 4
\* hours before the run starts, the selection being the query's comparison of
\* the stored 'YYYY-MM-DD HH:MM:SS' text with the ISO-8601 cutoff string.
C23_CooldownHolds == [][C23_Step]_vars

C24_Step ==
  fb.pc = "awaitEngagement" /\ fb' # fb
  => LET id == fb.authors[fb.i].id IN
     \* checked or failed, the row is stamped, and no other row is written
     /\ replied'[id].checked_follow_back_at = now
     /\ Len(replied') = Len(replied)
     /\ \A j \in 1..Len(replied) : j # id => replied'[j] = replied[j]
     /\ resp'.res = "throw"
        => replied' = [replied EXCEPT ![id].checked_follow_back_at = now]
     \* the run goes on with the next selected author, if there is one
     /\ fb.i < Len(fb.authors)
        => /\ fb'.pc = "awaitEngagement"
           /\ fb'.i = fb.i + 1
           /\ fb'.authors = fb.authors

\* C24: in a feedback run a failure while checking one author is caught, the
\* row's checked timestamp is still advanced, and the remaining selected
\* authors are still checked in the same run.
C24_FailureCaughtAndStamped == [][C24_Step]_vars

C24_CheckedAfterFailure ==
  /\ fb.pc = "awaitEngagement"
  /\ fb.i = 2
  /\ resp.svc = "engagement"
  /\ resp.res = "throw"
  /\ replied[fb.authors[1].id].checked_follow_back_at = now

\* author n of the run was seen following or replying back while the selected
\* row did not say so
C25_NewlyBack(n) ==
  LET a == fb.authors[n] IN
  \/ replied'[a.id].followed_back /\ ~a.followed_back
  \/ replied'[a.id].got_reply_back /\ ~a.got_reply_back

C25_Step ==
  LET summaries == Count(sent', "feedback_summary")
      runEnds == fb.pc = "awaitEngagement" /\ fb'.pc = "idle"
  IN /\ summaries <= 1
     /\ ~runEnds => summaries = 0
     /\ runEnds => (summaries = 1 <=> \E n \in 1..Len(fb.authors) : C25_NewlyBack(n))

\* C25: a feedback run sends its summary only when at least one checked author
\* newly followed back or newly replied back in that run (seen true while the
\* row's stored flag was false); otherwise it sends nothing; and it sends at
\* most one summary per run.
C25_SummaryOnlyOnChange == [][C25_Step]_vars

C25_SummarySent ==
  /\ fb.pc = "idle"
  /\ resp.svc = "engagement"
  /\ sent = <<Msg("feedback_summary", 1)>>

C25_QuietRun ==
  /\ fb.pc = "idle"
  /\ resp.svc = "engagement"
  /\ sent = <<>>
  /\ \E j \in 1..Len(replied) : replied[j].followed_back

C26_Step ==
  \* stopping one pipeline leaves the other task and the runs in flight alone
  /\ recv'.kind = "stop"
     => /\ cron'.searchTask = cron.searchTask /\ cron'.searchEnabled = cron.searchEnabled
        /\ srch' = srch /\ fb' = fb
  /\ recv'.kind = "searchoff"
     => /\ cron'.pollTask = cron.pollTask /\ cron'.pollingEnabled = cron.pollingEnabled
        /\ poll' = poll
  \* account polling and search follow their own flag only
  /\ (recv'.kind = "poll_interval" /\ cron.pollingEnabled)
     => \E r \in 1..MaxPolls : poll'[r].pc # "idle"
  /\ (recv'.kind = "search_interval" /\ cron.searchEnabled) => srch'.pc # "idle"
  \* with search stopped the feedback loop still runs at every interval of the
  \* schedule: checkFeedback is under way, or has returned, after the step
  /\ (recv'.kind = "search_interval" /\ ~cron.searchEnabled)
     => (fb'.pc # "idle" \/ fb'.lastFeedbackTime = now)

\* C26: the pipelines are paused independently: stopping one never stops the
\* scheduled runs of another; while search discovery is stopped the feedback
\* loop still runs at every scheduled interval, and stopping account polling
\* affects neither search nor feedback.
C26_PausedIndependently == [][C26_Step]_vars

\* every step of a cycle in flight can be taken whatever the flags say
C27_InFlightGoesOn ==
  /\ \A r \in 1..MaxPolls :
       /\ poll[r].pc = "awaitFetch" => ENABLED PollFetchReturn(r)
       /\ poll[r].pc = "awaitGen" => ENABLED PollGenReturn(r)
       /\ poll[r].pc = "awaitSend" => ENABLED PollSendReturn(r)
  /\ srch.pc = "awaitSearch" => ENABLED SearchFetchReturn
  /\ srch.pc = "awaitBatch" => ENABLED SearchBatchReturn

C27_Step ==
  \* stopped, an interval of the schedule starts no cycle and writes nothing
  /\ (recv'.kind = "poll_interval" /\ ~cron.pollingEnabled)
     => (poll' = poll /\ rows' = rows /\ last_tweet_id' = last_tweet_id /\ sent' = <<>>)
  /\ (recv'.kind = "search_interval" /\ ~cron.searchEnabled)
     => (srch' = srch /\ rows' = rows /\ sent' = <<>>)
  \* a cycle starts with a scheduled interval only
  /\ \A r \in 1..MaxPolls :
       (poll[r].pc = "idle" /\ poll'[r].pc # "idle")
       => (recv'.kind = "poll_interval" /\ cron.pollingEnabled)
  /\ (srch.pc = "idle" /\ srch'.pc # "idle")
     => (recv'.kind = "search_interval" /\ cron.searchEnabled)
  \* only the matching start lifts a stop
  /\ (~cron.pollingEnabled /\ cron'.pollingEnabled) => recv'.kind = "start"
  /\ (~cron.searchEnabled /\ cron'.searchEnabled) => recv'.kind = "searchon"
  \* a stop leaves the cycle in flight as it is, able to go on
  /\ recv'.kind \in {"stop", "searchoff"}
     => (poll' = poll /\ srch' = srch /\ rows' = rows /\ last_tweet_id' = last_tweet_id)
  /\ C27_InFlightGoesOn

\* C27: once stopPolling (or stopSearch) has taken effect no scheduled cycle of
\* that pipeline starts until the matching start is called, while a cycle in
\* flight when the stop is called runs to completion, database writes and
\* notifications included.
C27_StopHoldsNextCycleOnly == [][C27_Step]_vars

\* stopped, the cycle that was in flight has queued its row and sent its notification
C27_CompletedWhileStopped ==
  /\ ~cron.pollingEnabled
  /\ \E r \in 1..MaxPolls : poll[r].pc = "awaitSend"
  /\ \E j \in 1..Len(sent) : sent[j] = Msg("approval", Len(rows))

(* ------------------------------- C28 ---------------------------------- *)
\* a state of the two tables: no two replied_authors rows for one
\* (username, tweet_id), and every row links a published pending_replies row
C28_State ==
  /\ \A i, j \in 1..Len(replied) :
       replied[i].username = replied[j].username /\ replied[i].tweet_id = replied[j].tweet_id
       => i = j
  /\ \A j \in 1..Len(replied) :
       /\ replied[j].reply_id \in 1..Len(rows)
       /\ rows[replied[j].reply_id].status \in {"posted", "edited"}
       /\ rows[replied[j].reply_id].tweet_id = replied[j].tweet_id
       /\ rows[replied[j].reply_id].tweet_author = replied[j].username
       /\ pubcount[replied[j].tweet_id] >= 1

C28_Step ==
  \* existing rows are never modified or removed
  /\ Len(replied') >= Len(replied)
  /\ \A j \in 1..Len(replied) : replied'[j] = replied[j]
  \* a new row is written only by the handler whose publish call came back
  \* with a reply id, for the pending_replies row that handler published
  /\ Len(replied') > Len(replied)
     => /\ Len(replied') = Len(replied) + 1
        /\ resp'.svc = "publisher"
        /\ resp'.res = "ok"
        /\ \E k \in Handlers :
             /\ h[k].pc = "awaitPublish"
             /\ h'[k] # h[k]
             /\ replied'[Len(replied')].reply_id = h[k].snap.id
             /\ replied'[Len(replied')].tweet_id = h[k].snap.tweet_id
             /\ replied'[Len(replied')].username = h[k].snap.tweet_author
             /\ rows'[h[k].snap.id].status \in {"posted", "edited"}
             /\ pubcount'[h[k].snap.tweet_id] = pubcount[h[k].snap.tweet_id] + 1
  /\ C28_State'

\* C28: in every reachable state there is at most one replied_authors row per
\* (author, source post id); every replied_authors row was created by a
\* successful publish of the pending_replies row it links to, whose status is
\* posted or edited; and the approval handlers never modify an existing
\* replied_authors row.
C28_RepliedAuthorsIntegrity == C28_State /\ [][C28_Step]_vars

\* a source post published twice by racing handlers, still with one row
C28_PublishedTwiceLoggedOnce ==
  /\ \E t \in TweetIds : pubcount[t] >= 2
  /\ Len(replied) = 1

(* ------------------------------- C29 ---------------------------------- *)
\* positions of the candidates whose generation call is awaited
C29_InFlight ==
  IF srch.pc = "awaitBatch"
  THEN {j \in 1..Len(srch.cands) : srch.from <= j /\ j < srch.from + BATCH_SIZE}
  ELSE {}

\* no row holds the post of a fulfilled call and no two of them share a post:
\* no INSERT of the batch can fail
C29_Insertable(ok) ==
  /\ \A j \in ok : ~\E i \in 1..Len(rows) : rows[i].tweet_id = srch.cands[j].tweet
  /\ \A i, j \in ok : srch.cands[i].tweet = srch.cands[j].tweet => i = j

C29_Step ==
  /\ Cardinality(C29_InFlight') <= 5
  \* calls are started only when none is in flight, or when the whole batch
  \* in flight has settled in this step
  /\ C29_InFlight' # C29_InFlight /\ C29_InFlight' # {}
     => \/ C29_InFlight = {}
        \/ /\ resp'.svc = "generate"
           /\ resp'.page \cup resp'.stale = C29_InFlight
           /\ \A j \in C29_InFlight' : \A i \in C29_InFlight : j > i
  \* the calls in flight stay in flight until all of them have settled
  /\ C29_InFlight # {} /\ C29_InFlight' # C29_InFlight
     => /\ resp'.svc = "generate"
        /\ resp'.page \cup resp'.stale = C29_InFlight
        /\ resp'.page \cap resp'.stale = {}
  \* every candidate whose call was fulfilled is queued, rejected calls or not
  /\ resp'.svc = "generate" /\ C29_Insertable(resp'.page)
     => /\ Len(rows') = Len(rows) + Cardinality(resp'.page)
        /\ \A j \in resp'.page :
             \E i \in (Len(rows) + 1)..Len(rows') :
               /\ rows'[i].tweet_id = srch.cands[j].tweet
               /\ rows'[i].status = "pending"

\* C29: within one pollSearches cycle at most 5 generation calls are in flight
\* at any moment; the next batch of calls starts only after every call of the
\* previous batch has settled; and a rejected call does not prevent the other
\* candidates of its batch from being queued.
C29_BatchesOfFive == [][C29_Step]_vars

\* a second batch in flight after a first one in which a call was rejected
\* and another candidate was queued
C29_QueuedBesideRejected ==
  /\ srch.pc = "awaitBatch"
  /\ srch.from = BATCH_SIZE + 1
  /\ resp.svc = "generate"
  /\ resp.stale # {}
  /\ resp.page # {}
  /\ \E j \in resp.page : \E i \in resp.stale : i < j
  /\ Len(rows) = Cardinality(resp.page)

(* ------------------------------- C30 ---------------------------------- *)
\* a step of pollAccounts run r / of the /fetch handler k
C30_PollStep(r) == poll'[r] # poll[r]
C30_FetchStep(k) == h[k].kind = "fetch" /\ h'[k] # h[k]

C30_Step ==
  \* pollAccounts: no post older than an hour is fetched, awaited or queued
  /\ \A r \in 1..MaxPolls :
       C30_PollStep(r)
       => /\ resp'.svc = "timeline" => resp'.page \cap old = {}
          /\ poll'[r].pc = "awaitGen" => poll'[r].tweet \notin old
          /\ \A j \in (Len(rows) + 1)..Len(rows') : rows'[j].tweet_id \notin old
  \* /fetch: the newest post returned goes to generation whatever its age when
  \* no row holds it, and is queued when the generator returns a reply
  /\ \A k \in Handlers :
       /\ C30_FetchStep(k) /\ h[k].pc = "awaitFetch" /\ resp'.page # {}
          => LET latest == CHOOSE t \in resp'.page : \A u \in resp'.page : u <= t IN
             IF \E j \in 1..Len(rows) : rows[j].tweet_id = latest
             THEN h'[k].pc = "idle" /\ sent' = <<Msg("already_have", latest)>>
             ELSE h'[k].pc = "awaitGen" /\ h'[k].snap.tweet_id = latest
       /\ C30_FetchStep(k) /\ h[k].pc = "awaitGen"
          /\ (\A j \in 1..Len(rows) : rows[j].tweet_id # h[k].snap.tweet_id)
          => \/ sent' = <<Msg("fetch_failed", 0)>> /\ rows' = rows
             \/ /\ Len(rows') = Len(rows) + 1
                /\ rows'[Len(rows')].tweet_id = h[k].snap.tweet_id
                /\ rows'[Len(rows')].status = "pending"
                /\ sent' = <<Msg("approval", Len(rows'))>>

\* C30: the one-hour window applies to scheduled account polling and not to
\* the on-demand fetch: pollAccounts never queues a post older than one hour,
\* while /fetch takes the newest post the account's timeline returns, whatever
\* its age, and queues it if no row for it exists.
C30_WindowForPollingOnly == [][C30_Step]_vars

\* a post older than an hour queued by /fetch, after a poll that found nothing
C30_OldPostQueuedByFetch ==
  /\ \E j \in 1..Len(rows) : rows[j].tweet_id \in old /\ rows[j].status = "pending"
  /\ sent = <<Msg("approval", Len(rows))>>
  /\ runsLeft < MaxDiscRuns

(* ------------------------------- C31 ---------------------------------- *)
\* the answer the handler gives when the control returned true / false
C31_True == {"polling_started", "polling_stopped", "search_started", "search_stopped"}
C31_False == {"already_running", "already_stopped"}

\* everything but the budget and the observation of the step
C31_State == <<rows, replied, sq, tc, last_tweet_id, poll, srch, h, pubcount,
               corpus, old, drafts, bip, sched, follow_backs, fb, cron, flt, now, runsLeft>>

C31_Step ==
  /\ recv'.kind \in {"start", "stop", "searchon", "searchoff"}
     => /\ Len(sent') = 1
        /\ sent'[1].kind \in C31_True \cup C31_False
        \* true exactly when the flag of that pipeline changes, to the value asked for
        /\ recv'.kind = "start"
           => /\ (sent'[1].kind = "polling_started") = (cron'.pollingEnabled # cron.pollingEnabled)
              /\ cron'.pollingEnabled
        /\ recv'.kind = "stop"
           => /\ (sent'[1].kind = "polling_stopped") = (cron'.pollingEnabled # cron.pollingEnabled)
              /\ ~cron'.pollingEnabled
        /\ recv'.kind = "searchon"
           => /\ (sent'[1].kind = "search_started") = (cron'.searchEnabled # cron.searchEnabled)
              /\ cron'.searchEnabled
        /\ recv'.kind = "searchoff"
           => /\ (sent'[1].kind = "search_stopped") = (cron'.searchEnabled # cron.searchEnabled)
              /\ ~cron'.searchEnabled
        \* false: nothing changes
        /\ sent'[1].kind \in C31_False => C31_State' = C31_State
        \* the other pipeline is left alone
        /\ recv'.kind \in {"start", "stop"}
           => cron'.searchEnabled = cron.searchEnabled /\ cron'.searchTask = cron.searchTask
        /\ recv'.kind \in {"searchon", "searchoff"}
           => cron'.pollingEnabled = cron.pollingEnabled /\ cron'.pollTask = cron.pollTask
  \* each flag tells whether the pipeline's scheduled task is running
  /\ cron'.pollingEnabled = cron'.pollTask
  /\ cron'.searchEnabled = cron'.searchTask

\* C31: startPolling, stopPolling, startSearch and stopSearch return true
\* exactly when they change the pipeline's enabled flag and return false
\* leaving all state unchanged otherwise, and after any sequence of these
\* calls each enabled flag equals whether that pipeline's task is running.
C31_IdempotentToggles == [][C31_Step]_vars

\* a second stop in a row: answered false, search still stopped
C31_StoppedTwice ==
  /\ recv.kind = "searchoff"
  /\ sent = <<Msg("already_stopped", 0)>>
  /\ ~cron.searchEnabled
  /\ ~cron.searchTask
  /\ cmdsLeft = MaxCronCmds - 2

(* ------------------------------- C32 ---------------------------------- *)
\* C32: in every reachable state of pending_replies, a row has a non-null
\* final_reply if and only if its status is posted or edited; a row in status
\* new or pending has a null resolved_at; and a row in status rejected, posted
\* or edited has a non-null resolved_at.
C32_RowFieldsFollowStatus ==
  \A j \in 1..Len(rows) :
    /\ rows[j].status \in {"new", "pending", "rejected", "posted", "edited"}
    /\ (rows[j].final_reply # NULL) = (rows[j].status \in {"posted", "edited"})
    /\ rows[j].status \in {"new", "pending"} => rows[j].resolved_at = NoTime
    /\ rows[j].status \in {"rejected", "posted", "edited"} => rows[j].resolved_at # NoTime

\* a rejected row beside a published one
C32_RejectedAndPublished ==
  /\ \E j \in 1..Len(rows) : rows[j].status = "rejected"
  /\ \E j \in 1..Len(rows) : rows[j].status \in {"posted", "edited"}

(* ------------------------------- C33 ---------------------------------- *)
C33_Step ==
  \* the stored id of an account never goes back
  /\ \A a \in Accounts : last_tweet_id'[a] >= last_tweet_id[a]
  \* a post queued by a run is the newest post of its account the bot has
  \* seen: none with a higher id is queued or recorded already
  /\ \A j \in (Len(rows) + 1)..Len(rows') :
       /\ \A i \in 1..Len(rows) :
            rows[i].tweet_author = rows'[j].tweet_author => rows[i].tweet_id < rows'[j].tweet_id
       /\ \A a \in Accounts :
            a = rows'[j].tweet_author => last_tweet_id[a] < rows'[j].tweet_id

\* C33: a tracked account's last_tweet_id never decreases, including when two
\* pollAccounts runs overlap, and overlapping runs never queue more than the
\* single newest post of that account.
C33_LastTweetIdMonotone == [][C33_Step]_vars

(* ------------------------------- C34 ---------------------------------- *)
C34_Step ==
  fb.pc = "awaitEngagement" /\ fb' # fb
  => LET id == fb.authors[fb.i].id IN
     \* the engagement fetch failed: the reply-back flag stays as it was
     /\ resp'.res \in {"error", "throw"}
        => replied'[id].got_reply_back = replied[id].got_reply_back
     \* the follower list came back empty (fetchFollowerUsernames returns the
     \* empty set when its request fails): the follow-back flag stays as it was
     /\ fb.followers = {}
        => replied'[id].followed_back = replied[id].followed_back
     \* in both cases the checked timestamp advances
     /\ replied'[id].checked_follow_back_at = now

\* C34: a feedback run in which the follower-list fetch or an author's
\* engagement fetch fails leaves that author's followed_back and
\* got_reply_back flags as they were, only the checked timestamp advancing: a
\* flag once set is never reset by a failed or empty fetch.
C34_FailedFetchKeepsFlags == [][C34_Step]_vars

(* ------------------------------- C35 ---------------------------------- *)
\* the replied_authors rows of a query
C35_RowsOf(q) == {j \in 1..Len(replied) : replied[j].source_query = q}

\* C35: a search query's follow_backs counter is incremented at most once per
\* replied_authors row over the whole run of the system, across repeated
\* feedback runs, so it never exceeds the number of that query's replied
\* authors (those whose followed_back flag has ever been set being some of them).
C35_FollowBackCountedOnce ==
  \A q \in Queries : follow_backs[q] <= Cardinality(C35_RowsOf(q))

(* ------------------------------- C36 ---------------------------------- *)
\* the tables, the runs and handlers in flight, and the scheduler
C36_State == <<rows, replied, sq, tc, last_tweet_id, poll, srch, h, pubcount,
               follow_backs, sched, bip, drafts, fb, cron, flt, now, runsLeft>>

C36_Step ==
  recv'.kind = "foreign"
  => /\ sent' = <<>>
     /\ called' = <<>>
     /\ resp' = NoResp
     /\ C36_State' = C36_State

\* C36: a message from any chat other than the configured operator chat
\* produces no response, no database change, no scheduler change and no
\* publish call, whatever its text: the state after such a message equals the
\* state had the message never arrived.
C36_ForeignChatIgnored == [][C36_Step]_vars

\* a stranger's "2 all" arrives while a row is pending and an approval of the
\* operator is waiting for the publisher: the row stays pending
C36_RejectAllIgnored ==
  /\ recv = Cmd("foreign", <<>>, "2 all")
  /\ \E j \in 1..Len(rows) : rows[j].status = "pending"
  /\ \E k \in Handlers : h[k].pc = "awaitPublish"

(* ------------------------------- C37 ---------------------------------- *)
\* the row a run of the minute task is awaiting postTweet for
C37_Posting(r) == sched.run[r].duePosts[sched.run[r].i]

C37_State ==
  \* no row has been turned into more than one tweet
  /\ \A p \in 1..MaxSchedPosts : sched.published[p] <= 1
  \* no two runs are posting the same row
  /\ \A r, o \in 1..MaxSchedRuns :
       sched.run[r].pc = "awaitPost" /\ sched.run[o].pc = "awaitPost" /\ r # o
       => C37_Posting(r) # C37_Posting(o)
  \* no run is posting a row marked posted
  /\ \A r \in 1..MaxSchedRuns :
       sched.run[r].pc = "awaitPost" => sched.status[C37_Posting(r)] = "scheduled"

\* C37: each scheduled post is published at most once: the every-minute task
\* never calls postTweet twice for the same scheduled_posts row, even when a
\* tick starts while a previous tick is still posting, and a row marked posted
\* is never selected again.
C37_ScheduledPostPublishedOnce == C37_State

(* ------------------------------- C38 ---------------------------------- *)
\* C38: in the build-in-public conversation each completed collection of the
\* four answers triggers exactly one generation call and creates exactly one
\* bip_posts row: a message that arrives after the fourth answer while the
\* options are still being generated does not start a second generation or
\* create a second row, and the stored day_number increases by exactly one per
\* successfully posted BIP post.
C38_OneGenerationPerCollection ==
  \* no more generation calls than collections completed
  /\ bip.generated <= bip.completed
  \* no more rows than collections completed
  /\ Len(bip.status) <= bip.completed
  \* day_number has grown by one for every tweet created
  /\ bip.day_number = StartDay + bip.tweets

(* ------------------------------- C39 ---------------------------------- *)
\* C39: a content draft is posted to Twitter at most once: the draft leaves
\* status pending (to approved or edited) before the publish call is awaited, so
\* two overlapping approve / edit commands for the same draft result in at most
\* one postTweet call, and a draft's status becomes posted only after postTweet
\* returned a tweet id.
C39_DraftPostedAtMostOnce ==
  \* at most one postTweet call per draft
  /\ \A d \in 1..MaxDrafts : drafts.posts[d] <= 1
  \* no two handlers in flight work on the same draft
  /\ \A c, o \in 1..MaxDraftCalls :
       drafts.call[c].pc # "idle" /\ drafts.call[o].pc # "idle" /\ c # o
       => drafts.call[c].id # drafts.call[o].id
  \* the draft of a handler in flight is approved or edited, not pending
  /\ \A c \in 1..MaxDraftCalls :
       drafts.call[c].pc # "idle"
       => drafts.status[drafts.call[c].id] \in {"approved", "edited"}
  \* posted only with a tweet id returned
  /\ \A d \in 1..MaxDrafts :
       drafts.status[d] = "posted" => drafts.tweetIds[d] = 1

\* a second approve or edit command for a draft arrives while the first is
\* awaiting postTweet, and is turned away
C39_SecondCommandWhilePosting ==
  \E c \in 1..MaxDraftCalls :
    /\ drafts.call[c].pc = "awaitPost"
    /\ recv.kind \in {"approve", "edit"}
    /\ recv.ids = <<drafts.call[c].id>>
    /\ sent = <<Msg("notPending", drafts.call[c].id)>>

====
